---- MODULE Spec2Model ----
(***************************************************************************)
(* Order pricing / settlement pipeline and loyalty ledger of the           *)
(* chopsticks_backend Django project.                                      *)
(*                                                                         *)
(* Persistent state is the content of the (SQLite) database tables; every  *)
(* HTTP request runs on its own worker and keeps the model instances it    *)
(* loaded in request-local memory, so a request is modelled as a small     *)
(* process whose steps are the database statements at which other          *)
(* requests can interleave.                                                *)
(*                                                                         *)
(* Money is counted in mills (1/1000 Naira): 0.01 Naira = 10 mills.        *)
(***************************************************************************)
EXTENDS Integers, Sequences, FiniteSets, TLC

(***************************************************************************)
(* Bounds of the model                                                     *)
(***************************************************************************)
NumWorkers == 2
\* orders created while the order numbers are followed
MaxNewOrders == 3
NumUsers == 1
MaxLedger == 4
MaxUserRewards == 2
MaxOrders == 2
MaxPricedOrders == 1
MaxPayments == 2
MaxOrderDiscount == 400000
MaxClock == 30
MaxEarned == 7000
MaxCards == 2

Workers == 1..NumWorkers
Users == 1..NumUsers

(***************************************************************************)
(* Program constants                                                       *)
(***************************************************************************)
POINTS_PER_DOLLAR == 1
PHYSICAL_VISIT_POINTS == 500
MIN_SCAN_INTERVAL_MINUTES == 30
\* get_default_expiration_date: timedelta(days=30), in minutes
REWARD_VALID_MINUTES == 43200
FIRST_ORDER_BONUS_POINTS == 1000
BIRTHDAY_BONUS_POINTS == 5000

MINIMUM_ORDER_AMOUNT == 1000000
MAX_SUBTOTAL == 1000000000
MAX_DELIVERY_FEE == 5000000
TOLERANCE == 10
VAT_PER_MILLE == 75

\* visit_amount of a card scan, in whole Naira (0 stands for "not given")
VisitAmounts == {0, -600}

(***************************************************************************)
(* Reward catalog (rows of loyalty.Reward created by the staff).           *)
(* max_redemptions = 0 means unlimited.                                    *)
(***************************************************************************)
RewardCatalog ==
  << [reward_type |-> "discount", points_required |-> 200,
      discount_percentage |-> 10, discount_amount |-> 0, max_redemptions |-> 1],
     [reward_type |-> "free_delivery", points_required |-> 400,
      discount_percentage |-> 0, discount_amount |-> 0, max_redemptions |-> 0],
     [reward_type |-> "cashback", points_required |-> 100,
      discount_percentage |-> 0, discount_amount |-> 200000, max_redemptions |-> 0],
     [reward_type |-> "discount", points_required |-> 100,
      discount_percentage |-> 0, discount_amount |-> 300000, max_redemptions |-> 0],
     [reward_type |-> "free_item", points_required |-> 100,
      discount_percentage |-> 0, discount_amount |-> 0, max_redemptions |-> 0] >>

\* every row of the catalog
RewardKinds == DOMAIN RewardCatalog

\* the rewards redeemed in the concurrent scenarios
RewardIds == {1, 2}

(***************************************************************************)
(* Promo codes (rows of promotions.PromoCode); 0 stands for "not set".     *)
(***************************************************************************)
PromoCatalog ==
  << [discount_type |-> "fixed", discount_value |-> 500000,
      minimum_order_amount |-> 0, maximum_discount |-> 0, usage_limit |-> 0] >>

PromoIds == DOMAIN PromoCatalog

(***************************************************************************)
(* Menu catalog: MenuItem.price in mills, index = menu item id.            *)
(***************************************************************************)
MenuPrice == << 1000000, 333320 >>

MenuIds == DOMAIN MenuPrice

\* a DateTimeField that is NULL
Never == -1

NoRow == [balance |-> -1, total_earned |-> -1, total_spent |-> -1]

VARIABLES
  points,        \* loyalty_userpoints: user -> row, NoRow when the row does not exist
  ledger,        \* loyalty_pointstransaction: user -> rows in creation order
  redemptions,   \* loyalty_reward.current_redemptions: reward id -> count
  userRewards,   \* loyalty_userreward: rows in creation order, index = id
  orders,        \* orders_order with its orders_orderitem rows, index = id
  promoUsages,   \* promotions_promocodeusage: rows in creation order
  promoCodes,    \* promotions_promocode.current_usage: promo id -> count
  orderNumbers,  \* orders_order.order_number in creation order, the digits after
                 \* "ORD-"; followed where order numbers are generated
  payments,      \* payments_payment: rows in creation order, index = reference
  paystack,      \* the gateway's status of each reference
  cards,         \* loyalty_loyaltycard: card id -> row; user 0 is an unassigned card
  now,           \* timezone.now(), in minutes
  req,           \* request-local state of each worker
  dbShared,      \* workers whose open transaction holds SQLite's SHARED lock
  dbReserved     \* worker whose open transaction holds the RESERVED lock, 0 if none

vars == << points, ledger, redemptions, userRewards, orders, promoUsages, promoCodes,
          orderNumbers, payments,
          paystack, cards, now, req, dbShared, dbReserved >>

cardVars == << cards, now >>

payVars == << payments, paystack >>

promoVars == << promoUsages, promoCodes >>

shopVars == << orders, promoVars, payVars >>

loyaltyVars == << points, ledger, redemptions, userRewards >>

\* no totals computed
NoTotals ==
  [subtotal |-> 0, tax_amount |-> 0, delivery_fee |-> 0, discount_amount |-> 0,
   total |-> 0]

NoInput == [user |-> 0, delivery_type |-> "none", has_address |-> FALSE, items |-> << >>,
            reward_id |-> 0, subtotal |-> 0, tax_amount |-> 0, delivery_fee |-> 0,
            discount_amount |-> 0, total_amount |-> 0]

\* no Order object loaded
NoOrder == [user |-> 0, delivery_type |-> "none", subtotal |-> 0, tax_amount |-> 0,
            delivery_fee |-> 0, discount_amount |-> 0, total_amount |-> 0,
            status |-> "none", payment_status |-> "none", payment_verified_at |-> Never,
            special_instructions |-> "", reward_id |-> 0, items |-> << >>]

\* no PromoCode object loaded
NoPromoCode == [id |-> 0, current_usage |-> 0]

Idle == [pc |-> "idle", op |-> "none", user |-> 0, rid |-> 0, amount |-> 0,
         up |-> NoRow, current_redemptions |-> 0, urid |-> 0, oid |-> 0, ref |-> 0, preview |-> NoTotals,
         input |-> NoInput, snapshot |-> << >>, order |-> NoOrder, promo |-> NoPromoCode,
         order_number |-> << >>,
         result |-> "none"]

(***************************************************************************)
(* SQLite locking (DATABASES ENGINE = sqlite3).  A statement outside       *)
(* transaction.atomic() is its own transaction; it can commit only when no *)
(* other connection holds a lock.  Inside transaction.atomic() the first   *)
(* read takes SHARED and keeps it to the end, the first write takes        *)
(* RESERVED; a second writer gets "database is locked" at once.            *)
(***************************************************************************)
CanCommit(w) == dbShared \ {w} = {} /\ dbReserved \in {0, w}

CanReserve(w) == dbReserved \in {0, w}

(***************************************************************************)
(* UserPoints.add_points / UserPoints.spend_points on a loaded instance.   *)
(* The columns are PositiveIntegerField: the UPDATE violates the CHECK     *)
(* constraint (IntegrityError) when a column would become negative.        *)
(***************************************************************************)
RowValid(row) == row.balance >= 0 /\ row.total_earned >= 0 /\ row.total_spent >= 0

\* mutation: the earn forgets to count the amount in total_earned
add_points_forgets_total(row, amount) ==
  [balance |-> row.balance + amount,
   total_earned |-> row.total_earned,
   total_spent |-> row.total_spent]

add_points(row, amount) ==
  [balance |-> row.balance + amount,
   total_earned |-> row.total_earned + amount,
   total_spent |-> row.total_spent]

\* mutation: spend_points without its balance test
CanSpend_unchecked(row, amount) == TRUE

CanSpend(row, amount) == ~(row.balance < amount)

spend_points(row, amount) ==
  [balance |-> row.balance - amount,
   total_earned |-> row.total_earned,
   total_spent |-> row.total_spent + amount]

Txn(amount, type, balance_after, order) ==
  [amount |-> amount, transaction_type |-> type,
   balance_after |-> balance_after, order |-> order]

(***************************************************************************)
(* Reward.is_available / Reward.can_be_redeemed_by                         *)
(* (the catalog rows of the model are active and inside their window)      *)
(***************************************************************************)
is_available(rid) ==
  ~(RewardCatalog[rid].max_redemptions > 0
      /\ redemptions[rid] >= RewardCatalog[rid].max_redemptions)

can_be_redeemed_by(rid, u) ==
  /\ points[u] # NoRow
  /\ points[u].balance >= RewardCatalog[rid].points_required

Init ==
  /\ points = [u \in Users |-> NoRow]
  /\ ledger = [u \in Users |-> << >>]
  /\ redemptions = [r \in RewardKinds |-> 0]
  /\ userRewards = << >>
  /\ orders = << >>
  /\ promoUsages = << >>
  /\ promoCodes = [pid \in PromoIds |-> 0]
  /\ orderNumbers = << >>
  /\ payments = << >>
  /\ paystack = << >>
  /\ cards = [u \in Users |-> [user |-> u, is_active |-> TRUE, last_scan |-> Never]]
  /\ now = 0
  /\ req = [w \in Workers |-> Idle]
  /\ dbShared = {}
  /\ dbReserved = 0

Free(w) == req[w].pc \in {"idle", "done"}

(***************************************************************************)
(* award_points_for_physical_visit(user, visit_amount)                     *)
(***************************************************************************)
\* UserPoints.objects.get_or_create(user=user) and the points computation
VisitRead(w, u, visit_amount) ==
  /\ Free(w)
  /\ Len(ledger[u]) + 2 <= MaxLedger
  /\ points[u] = NoRow => CanCommit(w)
  /\ LET row == IF points[u] = NoRow
                THEN [balance |-> 0, total_earned |-> 0, total_spent |-> 0]
                ELSE points[u]
         amount_points == IF visit_amount # 0 THEN visit_amount * POINTS_PER_DOLLAR ELSE 0
     IN /\ points' = [points EXCEPT ![u] = row]
        /\ req' = [req EXCEPT ![w] =
                     [Idle EXCEPT !.pc = "visit_write", !.op = "visit", !.user = u,
                                  !.amount = PHYSICAL_VISIT_POINTS + amount_points,
                                  !.up = row]]
  /\ UNCHANGED << ledger, redemptions, userRewards, shopVars, dbShared, dbReserved >>
  /\ UNCHANGED cardVars
  /\ UNCHANGED orderNumbers

\* where award_points_for_physical_visit returns to: scan_loyalty_card goes
\* on to loyalty_card.scan_card()
AfterVisit(w) == IF req[w].op = "scan" THEN "scan_mark" ELSE "done"

\* user_points.add_points(total_points, reason) and the second
\* PointsTransaction.objects.create(...); any exception is caught and swallowed
VisitWrite(w) ==
  /\ req[w].pc = "visit_write"
  /\ CanCommit(w)
  /\ LET u == req[w].user
         row == add_points(req[w].up, req[w].amount)
     IN IF RowValid(row)
        THEN /\ points' = [points EXCEPT ![u] = row]
             /\ ledger' = [ledger EXCEPT ![u] =
                   @ \o << Txn(req[w].amount, "earned", row.balance, 0),
                           Txn(req[w].amount, "physical_visit", row.balance, 0) >>]
             /\ req' = [req EXCEPT ![w].pc = AfterVisit(w), ![w].up = row,
                                   ![w].result = "awarded"]
        ELSE /\ UNCHANGED << points, ledger >>
             /\ req' = [req EXCEPT ![w].pc = AfterVisit(w), ![w].result = "award_error"]
  /\ UNCHANGED << redemptions, userRewards, shopVars, dbShared, dbReserved >>
  /\ UNCHANGED cardVars
  /\ UNCHANGED orderNumbers

(***************************************************************************)
(* UserPoints.spend_points(amount) called on the user's row as loaded from *)
(* the database: ValueError when the balance is too small, else the row is *)
(* saved and a 'spent' entry is created.                                   *)
(***************************************************************************)
SpendAmounts == {100, 300, 500, 700}

SpendPoints(w, u, amount) ==
  /\ Free(w)
  /\ points[u] # NoRow
  /\ Len(ledger[u]) < MaxLedger
  /\ CanCommit(w)
  /\ IF CanSpend(points[u], amount)
     THEN LET row == spend_points(points[u], amount)
          IN /\ points' = [points EXCEPT ![u] = row]
             /\ ledger' = [ledger EXCEPT ![u] = Append(@, Txn(amount, "spent", row.balance, 0))]
             /\ req' = [req EXCEPT ![w] =
                   [Idle EXCEPT !.pc = "done", !.op = "spend", !.user = u,
                                !.amount = amount, !.up = row, !.result = "spent"]]
     ELSE /\ UNCHANGED << points, ledger >>
          /\ req' = [req EXCEPT ![w] =
                [Idle EXCEPT !.pc = "done", !.op = "spend", !.user = u,
                             !.amount = amount, !.up = points[u],
                             !.result = "insufficient"]]
  /\ UNCHANGED << redemptions, userRewards, shopVars, cardVars, dbShared, dbReserved >>
  /\ UNCHANGED orderNumbers

(***************************************************************************)
(* redeem_reward (loyalty/views.py)                                        *)
(***************************************************************************)
\* RewardRedemptionSerializer.validate_reward_id, outside the transaction
RedeemValidate(w, u, rid) ==
  /\ Free(w)
  /\ Len(userRewards) < MaxUserRewards
  /\ req' = [req EXCEPT ![w] =
       IF is_available(rid) /\ can_be_redeemed_by(rid, u)
       THEN [Idle EXCEPT !.pc = "redeem_read", !.op = "redeem", !.user = u, !.rid = rid]
       ELSE [Idle EXCEPT !.pc = "done", !.op = "redeem", !.user = u, !.rid = rid,
                         !.result = "invalid"]]
  /\ UNCHANGED << loyaltyVars, shopVars, dbShared, dbReserved >>
  /\ UNCHANGED cardVars
  /\ UNCHANGED orderNumbers

\* mutation: the rows are loaded before transaction.atomic() is entered, so the
\* request takes no read lock and may go on with a stale balance
RedeemRead_before_atomic(w) ==
  /\ req[w].pc = "redeem_read"
  /\ LET u == req[w].user
         rid == req[w].rid
     IN IF points[u] = NoRow \/ points[u].balance < RewardCatalog[rid].points_required
        THEN req' = [req EXCEPT ![w].pc = "done", ![w].result = "insufficient"]
        ELSE req' = [req EXCEPT ![w].pc = "redeem_write", ![w].up = points[u],
                                ![w].current_redemptions = redemptions[rid]]
  /\ UNCHANGED << loyaltyVars, shopVars, dbShared, dbReserved >>
  /\ UNCHANGED cardVars
  /\ UNCHANGED orderNumbers

\* with transaction.atomic(): Reward.objects.get, get_object_or_404(UserPoints)
\* and the balance check
RedeemRead(w) ==
  /\ req[w].pc = "redeem_read"
  /\ LET u == req[w].user
         rid == req[w].rid
     IN IF points[u] = NoRow \/ points[u].balance < RewardCatalog[rid].points_required
        THEN \* the 400 response leaves the atomic block, which commits nothing
             /\ req' = [req EXCEPT ![w].pc = "done", ![w].result = "insufficient"]
             /\ UNCHANGED dbShared
        ELSE /\ req' = [req EXCEPT ![w].pc = "redeem_write", ![w].up = points[u],
                                   ![w].current_redemptions = redemptions[rid]]
             /\ dbShared' = dbShared \cup {w}
  /\ UNCHANGED << loyaltyVars, shopVars, dbReserved >>
  /\ UNCHANGED cardVars
  /\ UNCHANGED orderNumbers

\* spend_points, UserReward.objects.create, reward.save(): the first UPDATE
\* needs the RESERVED lock; "database is locked" rolls the block back
RedeemWrite(w) ==
  /\ req[w].pc = "redeem_write"
  /\ IF CanSpend(req[w].up, RewardCatalog[req[w].rid].points_required) /\ CanReserve(w)
     THEN /\ dbReserved' = w
          /\ req' = [req EXCEPT ![w].pc = "redeem_commit"]
          /\ UNCHANGED dbShared
     ELSE /\ dbShared' = dbShared \ {w}
          /\ req' = [req EXCEPT ![w].pc = "done", ![w].result = "failed"]
          /\ UNCHANGED dbReserved
  /\ UNCHANGED << loyaltyVars, shopVars >>
  /\ UNCHANGED cardVars
  /\ UNCHANGED orderNumbers

\* leaving the atomic block commits the three writes and the ledger entry
RedeemCommit(w) ==
  /\ req[w].pc = "redeem_commit"
  /\ CanCommit(w)
  /\ LET u == req[w].user
         rid == req[w].rid
         cost == RewardCatalog[rid].points_required
         row == spend_points(req[w].up, cost)
     IN /\ points' = [points EXCEPT ![u] = row]
        /\ ledger' = [ledger EXCEPT ![u] = Append(@, Txn(cost, "spent", row.balance, 0))]
        /\ userRewards' = Append(userRewards,
              [user |-> u, reward |-> rid, points_spent |-> cost,
               status |-> "active", expires_at |-> now + REWARD_VALID_MINUTES,
               order |-> 0])
        /\ redemptions' = [redemptions EXCEPT ![rid] = req[w].current_redemptions + 1]
        /\ req' = [req EXCEPT ![w].pc = "done", ![w].up = row, ![w].result = "redeemed"]
  /\ dbShared' = dbShared \ {w}
  /\ dbReserved' = 0
  /\ UNCHANGED shopVars
  /\ UNCHANGED cardVars
  /\ UNCHANGED orderNumbers

\* mutation: the three writes are not in one transaction, so an error after
\* spend_points leaves the spend and its ledger entry stored
RedeemAbort_keeps_spend(w) ==
  /\ req[w].pc = "redeem_commit"
  /\ CanCommit(w)
  /\ LET u == req[w].user
         cost == RewardCatalog[req[w].rid].points_required
         row == spend_points(req[w].up, cost)
     IN /\ points' = [points EXCEPT ![u] = row]
        /\ ledger' = [ledger EXCEPT ![u] = Append(@, Txn(cost, "spent", row.balance, 0))]
        /\ req' = [req EXCEPT ![w].pc = "done", ![w].result = "rolled_back"]
  /\ dbShared' = dbShared \ {w}
  /\ dbReserved' = 0
  /\ UNCHANGED << userRewards, redemptions, shopVars >>
  /\ UNCHANGED cardVars
  /\ UNCHANGED orderNumbers

\* an exception raised inside the atomic block after the spend (a failed
\* INSERT or COMMIT) leaves the block, which rolls every write back; the
\* except clause answers 400
RedeemAbort(w) ==
  /\ req[w].pc = "redeem_commit"
  /\ req' = [req EXCEPT ![w].pc = "done", ![w].result = "rolled_back"]
  /\ dbShared' = dbShared \ {w}
  /\ dbReserved' = 0
  /\ UNCHANGED << loyaltyVars, shopVars >>
  /\ UNCHANGED cardVars
  /\ UNCHANGED orderNumbers

(***************************************************************************)
(* Decimal arithmetic.  DecimalField(decimal_places=2) columns store the   *)
(* value rounded to 0.01 (decimal context rounding, ROUND_HALF_EVEN).      *)
(***************************************************************************)
Abs(x) == IF x < 0 THEN -x ELSE x

Min(a, b) == IF a < b THEN a ELSE b

Quantize2(x) ==
  LET q == x \div 10
      r == x % 10
  IN IF r < 5 THEN 10 * q
     ELSE IF r > 5 THEN 10 * (q + 1)
     ELSE IF q % 2 = 0 THEN 10 * q ELSE 10 * (q + 1)

\* sum(item['quantity'] * item['menu_item'].price for item in items_data)
RECURSIVE ItemsSubtotal(_)
ItemsSubtotal(items) ==
  IF items = << >> THEN 0
  ELSE Head(items).quantity * MenuPrice[Head(items).menu_item] + ItemsSubtotal(Tail(items))

\* amount * rate, split so that no intermediate product leaves the integers
\* the model checker computes with; the catalog prices make the result exact
\* to the third decimal place
VatOf(subtotal) ==
  (subtotal \div 1000) * VAT_PER_MILLE + ((subtotal % 1000) * VAT_PER_MILLE) \div 1000

PercentOf(amount, percentage) ==
  (amount \div 100) * percentage + ((amount % 100) * percentage) \div 100

(***************************************************************************)
(* UnifiedOrderSerializer._calculate_reward_discount                       *)
(***************************************************************************)
Rejected == [ok |-> FALSE, value |-> 0]

Accepted(v) == [ok |-> TRUE, value |-> v]

ActiveUserReward(urid, u) ==
  /\ urid \in DOMAIN userRewards
  /\ userRewards[urid].user = u
  /\ userRewards[urid].status = "active"

\* UserReward.is_expired
is_expired(user_reward) == user_reward.expires_at < now

calculate_reward_discount(data) ==
  IF data.reward_id = 0 THEN Accepted(0)
  ELSE IF data.user = 0 THEN Rejected
  ELSE IF ~ActiveUserReward(data.reward_id, data.user) THEN Rejected
  ELSE IF is_expired(userRewards[data.reward_id]) THEN Rejected
  ELSE LET reward == RewardCatalog[userRewards[data.reward_id].reward]
       IN CASE reward.reward_type = "discount" ->
                 IF reward.discount_percentage # 0
                 THEN Accepted(PercentOf(data.subtotal, reward.discount_percentage))
                 ELSE Rejected
            [] reward.reward_type = "free_delivery" -> Accepted(data.delivery_fee)
            [] reward.reward_type = "cashback" -> Accepted(reward.discount_amount)
            [] OTHER -> Accepted(0)

(***************************************************************************)
(* UnifiedOrderSerializer.validate (with validate_total_amount)            *)
(***************************************************************************)
\* serializers.DecimalField(decimal_places=2): a value with a third decimal
\* place is a validation error
DecimalFieldValid(x) == x % 10 = 0

\* mutation: validate() without the pickup rule on delivery_fee
validate_without_pickup_rule(data) ==
  IF ~(/\ DecimalFieldValid(data.subtotal) /\ DecimalFieldValid(data.tax_amount)
       /\ DecimalFieldValid(data.delivery_fee) /\ DecimalFieldValid(data.discount_amount)
       /\ DecimalFieldValid(data.total_amount)) THEN Rejected
  ELSE IF data.total_amount < MINIMUM_ORDER_AMOUNT THEN Rejected
  ELSE IF data.delivery_type = "delivery" /\ ~data.has_address THEN Rejected
  ELSE IF data.items = << >> THEN Rejected
  ELSE LET reward_discount == calculate_reward_discount(data)
           calculated_total == data.subtotal + data.tax_amount + data.delivery_fee
                                 - reward_discount.value
           max_discount == data.subtotal + data.tax_amount + data.delivery_fee
       IN IF ~reward_discount.ok THEN Rejected
          ELSE IF Abs(calculated_total - data.total_amount) > TOLERANCE THEN Rejected
          ELSE IF reward_discount.value > max_discount THEN Rejected
          ELSE Accepted(reward_discount.value)

validate(data) ==
  IF ~(/\ DecimalFieldValid(data.subtotal) /\ DecimalFieldValid(data.tax_amount)
       /\ DecimalFieldValid(data.delivery_fee) /\ DecimalFieldValid(data.discount_amount)
       /\ DecimalFieldValid(data.total_amount)) THEN Rejected
  ELSE IF data.total_amount < MINIMUM_ORDER_AMOUNT THEN Rejected
  ELSE IF data.delivery_type = "pickup" /\ data.delivery_fee # 0 THEN Rejected
  ELSE IF data.delivery_type = "delivery" /\ ~data.has_address THEN Rejected
  ELSE IF data.items = << >> THEN Rejected
  ELSE LET reward_discount == calculate_reward_discount(data)
           calculated_total == data.subtotal + data.tax_amount + data.delivery_fee
                                 - reward_discount.value
           max_discount == data.subtotal + data.tax_amount + data.delivery_fee
       IN IF ~reward_discount.ok THEN Rejected
          ELSE IF Abs(calculated_total - data.total_amount) > TOLERANCE THEN Rejected
          ELSE IF reward_discount.value > max_discount THEN Rejected
          ELSE Accepted(reward_discount.value)

(***************************************************************************)
(* UnifiedOrderSerializer._validate_totals_reasonable                      *)
(***************************************************************************)
validate_totals_reasonable(subtotal, tax, delivery_fee, discount, total) ==
  /\ ~(Abs(subtotal + tax + delivery_fee - discount - total) > TOLERANCE)
  /\ ~(subtotal <= 0 \/ subtotal > MAX_SUBTOTAL)
  /\ (0 <= tax /\ 4 * tax <= subtotal)
  /\ ~(delivery_fee < 0 \/ delivery_fee > MAX_DELIVERY_FEE)
  /\ ~(discount < 0 \/ discount > subtotal + tax + delivery_fee)
  /\ ~(total <= 0 \/ total > MAX_SUBTOTAL)
  /\ ~(total < MINIMUM_ORDER_AMOUNT)

(***************************************************************************)
(* UnifiedOrderSerializer._calculate_backend_totals                        *)
(***************************************************************************)
Totals(subtotal, tax, delivery_fee, discount, total) ==
  [subtotal |-> subtotal, tax_amount |-> tax, delivery_fee |-> delivery_fee,
   discount_amount |-> discount, total_amount |-> total]

calculate_backend_totals(delivery_fee, discount, items) ==
  LET subtotal == ItemsSubtotal(items)
      tax_amount == VatOf(subtotal)
      total_amount == subtotal + tax_amount + delivery_fee - discount
      max_discount == subtotal + tax_amount + delivery_fee - MINIMUM_ORDER_AMOUNT
      clamped == Min(discount, max_discount)
  IN IF total_amount < MINIMUM_ORDER_AMOUNT
     THEN Totals(subtotal, tax_amount, delivery_fee, clamped,
                 subtotal + tax_amount + delivery_fee - clamped)
     ELSE Totals(subtotal, tax_amount, delivery_fee, discount, total_amount)

(***************************************************************************)
(* create_order (orders/views.py) with UnifiedOrderSerializer.create       *)
(***************************************************************************)
\* the totals create() hands to Order.objects.create, and the delivery_type:
\* the recomputation returns a dict of the five totals only, so the row gets
\* the column default 'delivery'; the address text is put into
\* special_instructions when the dict says delivery_type 'delivery'
PricedOrder(data, discount) ==
  LET fee == IF data.delivery_type = "pickup" THEN 0 ELSE data.delivery_fee
  IN IF validate_totals_reasonable(data.subtotal, data.tax_amount, fee, discount,
                                   data.total_amount)
     THEN [totals |-> Totals(data.subtotal, data.tax_amount, fee, discount,
                             data.total_amount),
           delivery_type |-> data.delivery_type,
           special_instructions |->
             IF data.delivery_type = "delivery" /\ data.has_address
             THEN "Delivery Address" ELSE "",
           recomputed |-> FALSE]
     ELSE [totals |-> calculate_backend_totals(fee, discount, data.items),
           delivery_type |-> "delivery", special_instructions |-> "",
           recomputed |-> TRUE]

OrderRow(data, priced) ==
  [user |-> data.user,
   delivery_type |-> priced.delivery_type,
   special_instructions |-> priced.special_instructions,
   subtotal |-> Quantize2(priced.totals.subtotal),
   tax_amount |-> Quantize2(priced.totals.tax_amount),
   delivery_fee |-> Quantize2(priced.totals.delivery_fee),
   discount_amount |-> Quantize2(priced.totals.discount_amount),
   total_amount |-> Quantize2(priced.totals.total_amount),
   status |-> "pending",
   payment_status |-> "pending",
   payment_verified_at |-> Never,
   reward_id |-> data.reward_id,
   items |-> << >>]

\* serializer.is_valid(), the pricing of create() and Order.objects.create
OrderCreate(w, data, max_orders) ==
  /\ Free(w)
  /\ validate(data).ok => Len(orders) < max_orders
  /\ CanCommit(w)
  /\ LET v == validate(data)
         priced == PricedOrder(data, v.value)
     IN IF v.ok /\ ~(priced.totals.total_amount < MINIMUM_ORDER_AMOUNT)
        THEN /\ orders' = Append(orders, OrderRow(data, priced))
             /\ req' = [req EXCEPT ![w] =
                   [Idle EXCEPT !.pc = "order_reward", !.op = "create_order",
                                !.user = data.user, !.oid = Len(orders) + 1,
                                !.input = data,
                                !.result = IF priced.recomputed THEN "recomputed"
                                           ELSE "accepted"]]
        ELSE /\ orders' = orders
             /\ req' = [req EXCEPT ![w] =
                   [Idle EXCEPT !.pc = "done", !.op = "create_order",
                                !.user = data.user, !.input = data,
                                !.result = "rejected"]]
  /\ UNCHANGED << loyaltyVars, promoVars, payVars, dbShared, dbReserved >>
  /\ UNCHANGED cardVars
  /\ UNCHANGED orderNumbers

\* UserReward.use_reward(order): a save of the whole loaded row
use_reward(row, oid) == [row EXCEPT !.status = "used", !.order = oid]

\* "Apply reward if reward_id was provided": an error is logged and swallowed
OrderUseReward(w) ==
  /\ req[w].pc = "order_reward"
  /\ CanCommit(w)
  /\ LET urid == req[w].input.reward_id
     IN IF urid # 0 /\ req[w].user # 0 /\ ActiveUserReward(urid, req[w].user)
        THEN userRewards' = [userRewards EXCEPT ![urid] = use_reward(@, req[w].oid)]
        ELSE userRewards' = userRewards
  /\ req' = [req EXCEPT ![w].pc = "order_items", ![w].urid = req[w].input.reward_id]
  /\ UNCHANGED << points, ledger, redemptions, shopVars, dbShared, dbReserved >>
  /\ UNCHANGED cardVars
  /\ UNCHANGED orderNumbers

OrderItem(line) ==
  [menu_item |-> line.menu_item, quantity |-> line.quantity,
   unit_price |-> MenuPrice[line.menu_item],
   total_price |-> MenuPrice[line.menu_item] * line.quantity]

RECURSIVE CreateItems(_, _, _)
CreateItems(items, i, failing) ==
  IF items = << >> THEN << >>
  ELSE (IF i \in failing THEN << >> ELSE << OrderItem(Head(items)) >>)
         \o CreateItems(Tail(items), i + 1, failing)

\* "Create order items with graceful error handling": a line whose INSERT
\* raises is logged and skipped
OrderCreateItems(w, failing) ==
  /\ req[w].pc = "order_items"
  /\ failing \subseteq DOMAIN req[w].input.items
  /\ CanCommit(w)
  /\ orders' = [orders EXCEPT ![req[w].oid].items = CreateItems(req[w].input.items, 1, failing)]
  /\ req' = [req EXCEPT ![w].pc = "done", ![w].input = NoInput]
  /\ UNCHANGED << loyaltyVars, promoVars, payVars, dbShared, dbReserved >>
  /\ UNCHANGED cardVars
  /\ UNCHANGED orderNumbers

(***************************************************************************)
(* Requests to POST /api/orders/create/.  A client sends a cart and its    *)
(* own five totals.  A proposal starts from the catalog prices of the cart *)
(* and departs from them in at most one respect.                           *)
(***************************************************************************)
Carts ==
  { << [menu_item |-> 1, quantity |-> 1] >>,
    << [menu_item |-> 1, quantity |-> 1], [menu_item |-> 2, quantity |-> 1] >> }

ClientFees == { 0, 2000000 }

ClientDiscount == 500000

ClientFee == 2000000

Deliveries ==
  { [delivery_type |-> "delivery", has_address |-> TRUE],
    [delivery_type |-> "delivery", has_address |-> FALSE],
    [delivery_type |-> "pickup", has_address |-> FALSE] }

OrderInput(u, d, cart, reward_id, s, t, f, disc, total) ==
  [user |-> u, delivery_type |-> d.delivery_type, has_address |-> d.has_address,
   items |-> cart, reward_id |-> reward_id, subtotal |-> s, tax_amount |-> t,
   delivery_fee |-> f, discount_amount |-> disc, total_amount |-> total]

\* the proposals of one cart with delivery fee f, for user u and UserReward
\* rid, where the client has taken dd off its total
Proposals(u, d, cart, rid, f, dd) ==
  LET s == ItemsSubtotal(cart)
      t == Quantize2(VatOf(s))
      t30 == Quantize2(PercentOf(s, 30))
  IN { OrderInput(u, d, cart, rid, s, t, f, dd, s + t + f - dd),
       OrderInput(u, d, cart, rid, s, t, f, dd, s + t + f - dd - 10),
       OrderInput(u, d, cart, rid, s, t, f, dd, s + t + f - dd + 20),
       OrderInput(u, d, cart, rid, s, t, f, 0, s + t + f - dd),
       OrderInput(u, d, cart, rid, 900000, t, f, dd, 900000 + t + f - dd),
       OrderInput(u, d, cart, rid, MAX_SUBTOTAL + 10, t, f, dd, MAX_SUBTOTAL + 10 + t + f - dd),
       OrderInput(u, d, cart, rid, s, 0, f, dd, s + f - dd),
       OrderInput(u, d, cart, rid, s, t30, f, dd, s + t30 + f - dd),
       OrderInput(u, d, cart, rid, s, t, MAX_DELIVERY_FEE + 1000000, dd,
                  s + t + MAX_DELIVERY_FEE + 1000000 - dd) }

OrderInputs ==
  UNION { UNION { Proposals(1, d, cart, rid, f, dd) :
                    dd \in {0, ClientDiscount, Quantize2(PercentOf(ItemsSubtotal(cart), 10)), f} } :
            d \in { d \in Deliveries : d.has_address }, cart \in Carts,
            rid \in 0..1, f \in ClientFees }
  \cup UNION { Proposals(u, d, cart, 0, 0, 0) :
                 u \in Users \cup {0}, d \in Deliveries, cart \in Carts \cup { << >> } }

PromoOrderAmounts == { 2000000 }

(***************************************************************************)
(* calculate_cart_totals (orders/services.py) behind                       *)
(* calculate_cart_totals_view (orders/views.py)                            *)
(***************************************************************************)
\* "Calculate reward discount": the amount taken off for a UserReward row,
\* 0 when no row is passed or the row is not active
cart_reward_discount(user_reward, subtotal, delivery_fee) ==
  IF user_reward.status # "active" THEN 0
  ELSE LET reward == RewardCatalog[user_reward.reward]
       IN CASE reward.reward_type = "free_item" -> 0
            [] reward.reward_type = "cashback" -> reward.discount_amount
            [] reward.reward_type = "discount" ->
                 IF reward.discount_percentage # 0
                 THEN PercentOf(subtotal, reward.discount_percentage)
                 ELSE reward.discount_amount
            [] reward.reward_type = "free_delivery" -> delivery_fee
            [] OTHER -> 0

NoUserReward == [user |-> 0, reward |-> 0, points_spent |-> 0, status |-> "none", order |-> 0]

calculate_cart_totals(cart_items, delivery_fee, user_reward) ==
  LET subtotal == ItemsSubtotal(cart_items)
      tax_amount == VatOf(subtotal)
      total == subtotal + tax_amount + delivery_fee
      discount_amount == cart_reward_discount(user_reward, subtotal, delivery_fee)
      final_total == total - discount_amount
  IN [subtotal |-> subtotal, tax_amount |-> tax_amount, delivery_fee |-> delivery_fee,
      discount_amount |-> discount_amount,
      total |-> IF final_total < MINIMUM_ORDER_AMOUNT THEN MINIMUM_ORDER_AMOUNT
                ELSE final_total]

\* POST /api/orders/calculate-totals/ by user u (0: anonymous)
CartPreview(w, u, cart_items, delivery_fee, reward_id) ==
  /\ Free(w)
  /\ cart_items # << >>
  /\ DecimalFieldValid(delivery_fee) /\ delivery_fee >= 0
  /\ LET data == [NoInput EXCEPT !.user = u, !.items = cart_items,
                                 !.delivery_fee = delivery_fee, !.reward_id = reward_id]
         found == reward_id \in DOMAIN userRewards /\ userRewards[reward_id].status = "active"
         refused == reward_id # 0 /\ (~found \/ (u # 0 /\ userRewards[reward_id].user # u))
     IN req' = [req EXCEPT ![w] =
          IF refused
          THEN [Idle EXCEPT !.pc = "done", !.op = "calculate_totals", !.user = u,
                            !.input = data, !.result = "rejected"]
          ELSE [Idle EXCEPT !.pc = "done", !.op = "calculate_totals", !.user = u,
                            !.input = data, !.result = "previewed",
                            !.preview = calculate_cart_totals(cart_items, delivery_fee,
                                          IF reward_id = 0 THEN NoUserReward
                                          ELSE userRewards[reward_id])]]
  /\ UNCHANGED << loyaltyVars, shopVars, dbShared, dbReserved >>
  /\ UNCHANGED cardVars
  /\ UNCHANGED orderNumbers

(***************************************************************************)
(* use_reward (loyalty/views.py)                                           *)
(***************************************************************************)
\* get_object_or_404(UserReward, id=reward_id, user=request.user, status='active')
UseRewardRead(w, u, urid) ==
  /\ Free(w)
  /\ urid \in DOMAIN userRewards
  /\ req' = [req EXCEPT ![w] =
       IF ActiveUserReward(urid, u)
       THEN [Idle EXCEPT !.pc = "use_write", !.op = "use_reward", !.user = u, !.urid = urid]
       ELSE [Idle EXCEPT !.pc = "done", !.op = "use_reward", !.user = u, !.urid = urid,
                         !.result = "not_found"]]
  /\ UNCHANGED << loyaltyVars, shopVars, dbShared, dbReserved >>
  /\ UNCHANGED cardVars
  /\ UNCHANGED orderNumbers

\* user_reward.use_reward()
UseRewardWrite(w) ==
  /\ req[w].pc = "use_write"
  /\ CanCommit(w)
  /\ userRewards' = [userRewards EXCEPT ![req[w].urid] = use_reward(@, 0)]
  /\ req' = [req EXCEPT ![w].pc = "done", ![w].result = "used"]
  /\ UNCHANGED << points, ledger, redemptions, shopVars, dbShared, dbReserved >>
  /\ UNCHANGED cardVars
  /\ UNCHANGED orderNumbers

(***************************************************************************)
(* Expiry of redeemed rewards: UserRewardsView.get_queryset (lazy, on      *)
(* read) and expire_old_rewards (sweep).  Both load the rows first and     *)
(* then save them one by one; Model.save() writes every column of the      *)
(* loaded object.                                                          *)
(***************************************************************************)
\* the rows a queryset yields, as they are stored when it is evaluated
Loaded(ids) == [i \in ids |-> userRewards[i]]

\* UserReward.objects.filter(user=self.request.user, status='active')
ExpiryCheckRead(w, u) ==
  /\ Free(w)
  /\ LET ids == {i \in DOMAIN userRewards : ActiveUserReward(i, u)}
     IN req' = [req EXCEPT ![w] =
          [Idle EXCEPT !.pc = IF ids = {} THEN "done" ELSE "expire_save",
                       !.op = "expiry_check", !.user = u, !.snapshot = Loaded(ids),
                       !.result = IF ids = {} THEN "listed" ELSE "none"]]
  /\ UNCHANGED << loyaltyVars, shopVars, dbShared, dbReserved >>
  /\ UNCHANGED cardVars
  /\ UNCHANGED orderNumbers

\* UserReward.objects.filter(status='active', expires_at__lt=timezone.now())
ExpireSweepRead(w) ==
  /\ Free(w)
  /\ LET ids == {i \in DOMAIN userRewards :
                  userRewards[i].status = "active" /\ userRewards[i].expires_at < now}
     IN req' = [req EXCEPT ![w] =
          [Idle EXCEPT !.pc = IF ids = {} THEN "done" ELSE "expire_save",
                       !.op = "expire_sweep", !.snapshot = Loaded(ids),
                       !.result = IF ids = {} THEN "swept" ELSE "none"]]
  /\ UNCHANGED << loyaltyVars, shopVars, dbShared, dbReserved >>
  /\ UNCHANGED cardVars
  /\ UNCHANGED orderNumbers

\* one turn of either loop, newest reward first (Meta.ordering):
\* check_and_update_expired_status tests the loaded object; the sweep has
\* selected expired rows only, for which the test is true as well
ExpireSave(w) ==
  /\ req[w].pc = "expire_save"
  /\ CanCommit(w)
  /\ LET loaded == req[w].snapshot
         i == CHOOSE j \in DOMAIN loaded : \A k \in DOMAIN loaded : k <= j
         user_reward == loaded[i]
         rest == [k \in DOMAIN loaded \ {i} |-> loaded[k]]
     IN /\ IF is_expired(user_reward) /\ user_reward.status = "active"
           THEN userRewards' = [userRewards EXCEPT ![i] = [user_reward EXCEPT !.status = "expired"]]
           ELSE userRewards' = userRewards
        /\ req' = [req EXCEPT ![w].snapshot = rest,
                              ![w].pc = IF DOMAIN rest = {} THEN "done" ELSE "expire_save",
                              ![w].result = IF DOMAIN rest # {} THEN "none"
                                            ELSE IF req[w].op = "expire_sweep" THEN "swept"
                                            ELSE "listed"]
  /\ UNCHANGED << points, ledger, redemptions, shopVars, dbShared, dbReserved >>
  /\ UNCHANGED cardVars
  /\ UNCHANGED orderNumbers

(***************************************************************************)
(* Order.save / Order._calculate_and_set_totals / Order.calculate_totals   *)
(***************************************************************************)
RECURSIVE ItemsTotal(_)
ItemsTotal(items) ==
  IF items = << >> THEN 0 ELSE Head(items).total_price + ItemsTotal(Tail(items))

\* calculate_totals returns a dict and leaves the instance untouched
calculate_totals(row) ==
  LET subtotal == ItemsTotal(row.items)
      tax_amount == VatOf(subtotal)
  IN [subtotal |-> subtotal, tax_amount |-> tax_amount,
      delivery_fee |-> row.delivery_fee,
      total |-> subtotal + tax_amount + row.delivery_fee]

calculate_and_set_totals(row) ==
  LET subtotal == IF row.subtotal = 0 THEN ItemsTotal(row.items) ELSE row.subtotal
      tax_amount == IF row.tax_amount = 0 THEN VatOf(subtotal) ELSE row.tax_amount
      total_amount == IF row.total_amount = 0
                      THEN subtotal + tax_amount + row.delivery_fee - row.discount_amount
                      ELSE row.total_amount
  IN [row EXCEPT !.subtotal = subtotal, !.tax_amount = tax_amount,
                 !.total_amount = total_amount]

order_save(row) ==
  LET filled == IF row.subtotal = 0 \/ row.total_amount = 0
                THEN calculate_and_set_totals(row) ELSE row
  IN [filled EXCEPT !.subtotal = Quantize2(@), !.tax_amount = Quantize2(@),
                    !.delivery_fee = Quantize2(@), !.discount_amount = Quantize2(@),
                    !.total_amount = Quantize2(@)]

(***************************************************************************)
(* apply_reward_to_order (loyalty/services.py)                             *)
(***************************************************************************)
apply_reward(row, reward) ==
  CASE reward.reward_type = "discount" ->
         order_save([row EXCEPT !.discount_amount =
            @ + (IF reward.discount_percentage # 0
                 THEN PercentOf(row.subtotal, reward.discount_percentage)
                 ELSE reward.discount_amount)])
    [] reward.reward_type = "free_delivery" ->
         order_save([row EXCEPT !.delivery_fee = 0])
    [] OTHER -> row

ApplyRewardToOrder(w, urid, oid) ==
  /\ Free(w)
  /\ urid \in DOMAIN userRewards
  /\ oid \in DOMAIN orders
  /\ orders[oid].discount_amount <= MaxOrderDiscount
  /\ CanCommit(w)
  /\ orders' = [orders EXCEPT ![oid] = apply_reward(@, RewardCatalog[userRewards[urid].reward])]
  /\ userRewards' = [userRewards EXCEPT ![urid] = use_reward(@, oid)]
  /\ req' = [req EXCEPT ![w] =
       [Idle EXCEPT !.pc = "done", !.op = "apply_reward", !.urid = urid, !.oid = oid,
                    !.result = "applied"]]
  /\ UNCHANGED << points, ledger, redemptions, promoVars, payVars, dbShared, dbReserved >>
  /\ UNCHANGED cardVars
  /\ UNCHANGED orderNumbers

(***************************************************************************)
(* cancel_order and update_order_status (orders/views.py)                  *)
(***************************************************************************)
\* Order.STATUS_CHOICES
STATUS_CHOICES == {"pending", "confirmed", "preparing", "ready", "out_for_delivery",
                   "delivered", "cancelled", "refunded"}

\* get_object_or_404(Order, id=order_id, user=request.user) and the status test
CancelRead(w, u, oid) ==
  /\ Free(w)
  /\ oid \in DOMAIN orders
  /\ req' = [req EXCEPT ![w] =
       IF orders[oid].user # u
       THEN [Idle EXCEPT !.pc = "done", !.op = "cancel_order", !.user = u, !.oid = oid,
                         !.result = "not_found"]
       ELSE IF orders[oid].status \in {"delivered", "cancelled", "refunded"}
       THEN [Idle EXCEPT !.pc = "done", !.op = "cancel_order", !.user = u, !.oid = oid,
                         !.result = "rejected"]
       ELSE [Idle EXCEPT !.pc = "cancel_write", !.op = "cancel_order", !.user = u,
                         !.oid = oid, !.order = orders[oid]]]
  /\ UNCHANGED << loyaltyVars, shopVars, dbShared, dbReserved >>
  /\ UNCHANGED cardVars
  /\ UNCHANGED orderNumbers

\* order.status = 'cancelled'; order.save() writes every column of the
\* object that was loaded
CancelWrite(w) ==
  /\ req[w].pc = "cancel_write"
  /\ CanCommit(w)
  /\ orders' = [orders EXCEPT ![req[w].oid] =
                  order_save([req[w].order EXCEPT !.status = "cancelled"])]
  /\ req' = [req EXCEPT ![w].pc = "done", ![w].order = orders'[req[w].oid],
                        ![w].result = "cancelled"]
  /\ UNCHANGED << loyaltyVars, promoVars, payVars, dbShared, dbReserved >>
  /\ UNCHANGED cardVars
  /\ UNCHANGED orderNumbers

\* update_order_status: staff only; OrderStatusUpdateSerializer accepts any
\* of STATUS_CHOICES; the row is loaded, changed and saved
UpdateOrderStatus(w, is_staff, oid, status) ==
  /\ Free(w)
  /\ oid \in DOMAIN orders
  /\ CanCommit(w)
  /\ IF ~is_staff
     THEN /\ orders' = orders
          /\ req' = [req EXCEPT ![w] =
                [Idle EXCEPT !.pc = "done", !.op = "update_order_status", !.oid = oid,
                             !.result = "forbidden"]]
     ELSE IF status \notin STATUS_CHOICES
     THEN /\ orders' = orders
          /\ req' = [req EXCEPT ![w] =
                [Idle EXCEPT !.pc = "done", !.op = "update_order_status", !.oid = oid,
                             !.result = "invalid"]]
     ELSE /\ orders' = [orders EXCEPT ![oid] = order_save([@ EXCEPT !.status = status])]
          /\ req' = [req EXCEPT ![w] =
                [Idle EXCEPT !.pc = "done", !.op = "update_order_status", !.oid = oid,
                             !.order = orders'[oid], !.result = "updated"]]
  /\ UNCHANGED << loyaltyVars, promoVars, payVars, dbShared, dbReserved >>
  /\ UNCHANGED cardVars
  /\ UNCHANGED orderNumbers

(***************************************************************************)
(* apply_promo_to_order (promotions/views.py)                              *)
(***************************************************************************)
PromoCurrentUsage(pid) == promoCodes[pid]

\* PromoCode.is_valid (the codes of the model are active and in their window)
promo_is_valid(pid) ==
  ~(PromoCatalog[pid].usage_limit > 0
      /\ PromoCurrentUsage(pid) >= PromoCatalog[pid].usage_limit)

\* PromoCode.is_valid_for_user
promo_is_valid_for_user(pid, u) ==
  /\ promo_is_valid(pid)
  /\ ~\E i \in DOMAIN promoUsages :
        promoUsages[i].promo_code = pid /\ promoUsages[i].user = u

\* PromoCode.calculate_discount
calculate_discount(pid, order_amount) ==
  LET promo == PromoCatalog[pid]
      discount == IF promo.discount_type = "percentage"
                  THEN PercentOf(order_amount, promo.discount_value)
                  ELSE promo.discount_value
      limited == IF promo.maximum_discount # 0
                 THEN Min(discount, promo.maximum_discount) ELSE discount
  IN IF order_amount < promo.minimum_order_amount THEN 0
     ELSE Min(limited, order_amount)

ApplyPromoToOrder(w, u, pid, oid, order_amount) ==
  /\ Free(w)
  /\ oid \in DOMAIN orders
  /\ orders[oid].user = u
  /\ CanCommit(w)
  /\ LET valid == /\ promo_is_valid_for_user(pid, u)
                  /\ ~(order_amount < PromoCatalog[pid].minimum_order_amount)
         existing_usage == \E i \in DOMAIN promoUsages :
                              promoUsages[i].promo_code = pid /\ promoUsages[i].order = oid
         discount_amount == calculate_discount(pid, order_amount)
     IN IF valid /\ ~existing_usage
        THEN /\ orders' = [orders EXCEPT ![oid] =
                   order_save([@ EXCEPT !.discount_amount = @ + discount_amount])]
             /\ promoCodes' = [promoCodes EXCEPT ![pid] = @ + 1]
             /\ promoUsages' = Append(promoUsages,
                   [promo_code |-> pid, user |-> u, order |-> oid,
                    discount_amount |-> discount_amount])
             /\ req' = [req EXCEPT ![w] =
                   [Idle EXCEPT !.pc = "done", !.op = "apply_promo", !.user = u,
                                !.oid = oid, !.result = "applied"]]
        ELSE /\ UNCHANGED << orders, promoVars >>
             /\ req' = [req EXCEPT ![w] =
                   [Idle EXCEPT !.pc = "done", !.op = "apply_promo", !.user = u,
                                !.oid = oid, !.result = "rejected"]]
  /\ UNCHANGED << loyaltyVars, payVars, dbShared, dbReserved >>
  /\ UNCHANGED cardVars
  /\ UNCHANGED orderNumbers

(***************************************************************************)
(* apply_promo_to_order statement by statement: the view runs outside any  *)
(* transaction, every query commits on its own.                            *)
(***************************************************************************)
\* the order and the promo code are loaded, the serializer validates, the
\* view looks for an existing usage
PromoValidate(w, u, pid, oid, order_amount) ==
  /\ Free(w)
  /\ oid \in DOMAIN orders
  /\ orders[oid].user = u
  /\ LET valid == /\ promo_is_valid_for_user(pid, u)
                  /\ ~(order_amount < PromoCatalog[pid].minimum_order_amount)
         existing_usage == \E i \in DOMAIN promoUsages :
                              promoUsages[i].promo_code = pid /\ promoUsages[i].order = oid
     IN req' = [req EXCEPT ![w] =
          IF valid /\ ~existing_usage
          THEN [Idle EXCEPT !.pc = "promo_order", !.op = "apply_promo", !.user = u,
                            !.oid = oid, !.order = orders[oid],
                            !.amount = calculate_discount(pid, order_amount),
                            !.promo = [id |-> pid, current_usage |-> promoCodes[pid]]]
          ELSE [Idle EXCEPT !.pc = "done", !.op = "apply_promo", !.user = u,
                            !.oid = oid, !.result = "rejected"]]
  /\ UNCHANGED << loyaltyVars, shopVars, cardVars, dbShared, dbReserved >>
  /\ UNCHANGED orderNumbers

\* order.discount_amount += discount_amount; order.calculate_totals(); order.save()
PromoOrderSave(w) ==
  /\ req[w].pc = "promo_order"
  /\ CanCommit(w)
  /\ orders' = [orders EXCEPT ![req[w].oid] =
        order_save([req[w].order EXCEPT !.discount_amount = @ + req[w].amount])]
  /\ req' = [req EXCEPT ![w].pc = "promo_count"]
  /\ UNCHANGED << loyaltyVars, promoVars, payVars, cardVars, dbShared, dbReserved >>
  /\ UNCHANGED orderNumbers

\* PromoCodeUsage.save of a new row, first half: the loaded promo code gets
\* current_usage += 1 and is saved
PromoCodeSave(w) ==
  /\ req[w].pc = "promo_count"
  /\ CanCommit(w)
  /\ promoCodes' = [promoCodes EXCEPT ![req[w].promo.id] = req[w].promo.current_usage + 1]
  /\ req' = [req EXCEPT ![w].pc = "promo_insert"]
  /\ UNCHANGED << loyaltyVars, orders, promoUsages, payVars, cardVars, dbShared, dbReserved >>
  /\ UNCHANGED orderNumbers

\* PromoCodeUsage.save, second half: the INSERT; unique_together
\* (promo_code, order) makes it fail with IntegrityError
PromoUsageInsert(w) ==
  /\ req[w].pc = "promo_insert"
  /\ CanCommit(w)
  /\ IF \E i \in DOMAIN promoUsages :
          /\ promoUsages[i].promo_code = req[w].promo.id
          /\ promoUsages[i].order = req[w].oid
     THEN /\ UNCHANGED promoUsages
          /\ req' = [req EXCEPT ![w].pc = "done", ![w].result = "error"]
     ELSE /\ promoUsages' = Append(promoUsages,
               [promo_code |-> req[w].promo.id, user |-> req[w].user, order |-> req[w].oid,
                discount_amount |-> req[w].amount])
          /\ req' = [req EXCEPT ![w].pc = "done", ![w].result = "applied"]
  /\ UNCHANGED << loyaltyVars, orders, promoCodes, payVars, cardVars, dbShared, dbReserved >>
  /\ UNCHANGED orderNumbers

(***************************************************************************)
(* initialize_payment (payments/views.py)                                  *)
(***************************************************************************)
\* gateway_ok = FALSE: PaystackService.initialize_transaction raises
InitializePayment(w, u, oid, gateway_ok) ==
  /\ Free(w)
  /\ oid \in DOMAIN orders
  /\ Len(payments) < MaxPayments
  /\ CanCommit(w)
  /\ LET order == orders[oid]
         refused == \/ order.payment_status # "pending"
                    \/ (order.user # 0 /\ u # 0 /\ order.user # u)
                    \/ ~gateway_ok
     IN IF refused
        THEN /\ UNCHANGED << orders, payVars >>
             /\ req' = [req EXCEPT ![w] =
                   [Idle EXCEPT !.pc = "done", !.op = "initialize_payment", !.user = u,
                                !.oid = oid, !.result = "rejected"]]
        ELSE /\ payments' = Append(payments, [order |-> oid, status |-> "pending"])
             /\ paystack' = Append(paystack, "pending")
             /\ orders' = [orders EXCEPT ![oid] = order_save(order)]
             /\ req' = [req EXCEPT ![w] =
                   [Idle EXCEPT !.pc = "done", !.op = "initialize_payment", !.user = u,
                                !.oid = oid, !.ref = Len(payments) + 1,
                                !.result = "initialized"]]
  /\ UNCHANGED << loyaltyVars, promoVars, dbShared, dbReserved >>
  /\ UNCHANGED cardVars
  /\ UNCHANGED orderNumbers

\* process_order_payment(order, payment_method): cash leaves the payment to
\* the delivery, online initializes a gateway transaction and stores its
\* reference; any exception of the gateway call marks the order failed
ProcessOrderPayment(w, oid, payment_method, gateway_ok) ==
  /\ Free(w)
  /\ oid \in DOMAIN orders
  /\ CanCommit(w)
  /\ LET order == orders[oid]
     IN CASE payment_method = "cash" ->
               /\ orders' = [orders EXCEPT ![oid] =
                     order_save([order EXCEPT !.payment_status = "pending"])]
               /\ req' = [req EXCEPT ![w] =
                     [Idle EXCEPT !.pc = "done", !.op = "process_order_payment",
                                  !.oid = oid, !.result = "cash"]]
          [] payment_method = "online" /\ gateway_ok ->
               /\ orders' = [orders EXCEPT ![oid] = order_save(order)]
               /\ req' = [req EXCEPT ![w] =
                     [Idle EXCEPT !.pc = "done", !.op = "process_order_payment",
                                  !.oid = oid, !.result = "initialized"]]
          [] payment_method = "online" /\ ~gateway_ok ->
               /\ orders' = [orders EXCEPT ![oid] =
                     order_save([order EXCEPT !.payment_status = "failed"])]
               /\ req' = [req EXCEPT ![w] =
                     [Idle EXCEPT !.pc = "done", !.op = "process_order_payment",
                                  !.oid = oid, !.result = "failed"]]
          [] OTHER ->
               /\ orders' = orders
               /\ req' = [req EXCEPT ![w] =
                     [Idle EXCEPT !.pc = "done", !.op = "process_order_payment",
                                  !.oid = oid, !.result = "unsupported"]]
  /\ UNCHANGED << loyaltyVars, promoVars, payVars, dbShared, dbReserved >>
  /\ UNCHANGED cardVars
  /\ UNCHANGED orderNumbers

\* the customer pays, or fails to pay, on the gateway's page
GatewayCharge(ref, outcome) ==
  /\ ref \in DOMAIN paystack
  /\ paystack[ref] = "pending"
  /\ paystack' = [paystack EXCEPT ![ref] = outcome]
  /\ UNCHANGED << loyaltyVars, orders, promoVars, payments, req, dbShared, dbReserved >>
  /\ UNCHANGED cardVars
  /\ UNCHANGED orderNumbers

(***************************************************************************)
(* verify_payment, payment_callback, PaystackWebhookView.post              *)
(***************************************************************************)
\* where a confirmation goes after order.save(): award_points_for_order for
\* an order with a user, otherwise the end of the handler
AfterPaid(op, ref, oid) ==
  IF orders[oid].user # 0
  THEN [Idle EXCEPT !.pc = "award_read", !.op = op, !.user = orders[oid].user,
                    !.oid = oid, !.ref = ref]
  ELSE [Idle EXCEPT !.pc = "done", !.op = op, !.oid = oid, !.ref = ref,
                    !.result = "paid"]

CanAward(oid) ==
  orders[oid].user # 0 => Len(ledger[orders[oid].user]) + 2 <= MaxLedger

\* payment.save() is the last statement of verify_payment: with an award
\* under way it is written by AwardWrite
VerifyPayment(w, ref, gateway_ok) ==
  /\ Free(w)
  /\ ref \in DOMAIN payments
  /\ CanAward(payments[ref].order)
  /\ CanCommit(w)
  /\ LET oid == payments[ref].order
     IN IF ~gateway_ok
        THEN \* PaystackVerificationError: the handler answers 500
             /\ UNCHANGED << orders, payments >>
             /\ req' = [req EXCEPT ![w] =
                   [Idle EXCEPT !.pc = "done", !.op = "verify_payment", !.oid = oid,
                                !.ref = ref, !.result = "error"]]
        ELSE IF paystack[ref] = "success"
        THEN /\ orders' = [orders EXCEPT ![oid] =
                   order_save([@ EXCEPT !.payment_status = "paid",
                                    !.payment_verified_at = now])]
             /\ payments' = IF orders[oid].user # 0 THEN payments
                            ELSE [payments EXCEPT ![ref].status = "success"]
             /\ req' = [req EXCEPT ![w] = AfterPaid("verify_payment", ref, oid)]
        ELSE /\ orders' = [orders EXCEPT ![oid] =
                   order_save([@ EXCEPT !.payment_status = "failed"])]
             /\ payments' = [payments EXCEPT ![ref].status = "failed"]
             /\ req' = [req EXCEPT ![w] =
                   [Idle EXCEPT !.pc = "done", !.op = "verify_payment", !.oid = oid,
                                !.ref = ref, !.result = "failed"]]
  /\ UNCHANGED << loyaltyVars, promoVars, paystack, dbShared, dbReserved >>
  /\ UNCHANGED cardVars
  /\ UNCHANGED orderNumbers

\* payment_callback sets payment.status on the loaded object and never saves it
PaymentCallback(w, ref, gateway_ok) ==
  /\ Free(w)
  /\ ref \in DOMAIN payments
  /\ CanAward(payments[ref].order)
  /\ CanCommit(w)
  /\ LET oid == payments[ref].order
     IN IF ~gateway_ok
        THEN \* verify_transaction raises: the handler answers 500
             /\ UNCHANGED orders
             /\ req' = [req EXCEPT ![w] =
                   [Idle EXCEPT !.pc = "done", !.op = "payment_callback", !.oid = oid,
                                !.ref = ref, !.result = "error"]]
        ELSE IF paystack[ref] = "success"
        THEN /\ orders' = [orders EXCEPT ![oid] =
                   order_save([@ EXCEPT !.payment_status = "paid",
                                    !.payment_verified_at = now])]
             /\ req' = [req EXCEPT ![w] = AfterPaid("payment_callback", ref, oid)]
        ELSE /\ orders' = [orders EXCEPT ![oid] =
                   order_save([@ EXCEPT !.payment_status = "failed"])]
             /\ req' = [req EXCEPT ![w] =
                   [Idle EXCEPT !.pc = "done", !.op = "payment_callback", !.oid = oid,
                                !.ref = ref, !.result = "failed"]]
  /\ UNCHANGED << loyaltyVars, promoVars, payVars, dbShared, dbReserved >>
  /\ UNCHANGED cardVars
  /\ UNCHANGED orderNumbers

\* the gateway posts a signed charge.success event for a reference it charged
PaystackWebhook(w, ref) ==
  /\ Free(w)
  /\ ref \in DOMAIN payments
  /\ paystack[ref] = "success"
  /\ CanAward(payments[ref].order)
  /\ CanCommit(w)
  /\ LET oid == payments[ref].order
     IN /\ payments' = [payments EXCEPT ![ref].status = "success"]
        /\ orders' = [orders EXCEPT ![oid] =
              order_save([@ EXCEPT !.payment_status = "paid",
                                    !.payment_verified_at = now])]
        /\ req' = [req EXCEPT ![w] = AfterPaid("webhook", ref, oid)]
  /\ UNCHANGED << loyaltyVars, promoVars, paystack, dbShared, dbReserved >>
  /\ UNCHANGED cardVars
  /\ UNCHANGED orderNumbers

(***************************************************************************)
(* award_points_for_order(order)                                           *)
(***************************************************************************)
\* int(order.subtotal * settings.POINTS_PER_DOLLAR)
base_points(subtotal) == (subtotal * POINTS_PER_DOLLAR) \div 1000

UserOrderCount(u) == Cardinality({ oid \in DOMAIN orders : orders[oid].user = u })

\* get_or_create of the points row and the points computation; is_birthday
\* is date.today() against the user's date of birth
AwardRead(w, is_birthday) ==
  /\ req[w].pc = "award_read"
  /\ points[req[w].user] = NoRow => CanCommit(w)
  /\ LET u == req[w].user
         row == IF points[u] = NoRow
                THEN [balance |-> 0, total_earned |-> 0, total_spent |-> 0]
                ELSE points[u]
         is_first_order == UserOrderCount(u) = 1
         first_order_bonus == IF is_first_order THEN FIRST_ORDER_BONUS_POINTS ELSE 0
         birthday_bonus == IF is_birthday THEN BIRTHDAY_BONUS_POINTS ELSE 0
         total_points == base_points(orders[req[w].oid].subtotal) + first_order_bonus
                           + birthday_bonus
     IN /\ points' = [points EXCEPT ![u] = row]
        /\ req' = [req EXCEPT ![w].pc = "award_write", ![w].amount = total_points,
                              ![w].up = row]
  /\ UNCHANGED << ledger, redemptions, userRewards, shopVars, dbShared, dbReserved >>
  /\ UNCHANGED cardVars
  /\ UNCHANGED orderNumbers

\* user_points.add_points(total_points, reason), then the PointsTransaction
\* with the order reference, then the rest of the handler
AwardWrite(w) ==
  /\ req[w].pc = "award_write"
  /\ CanCommit(w)
  /\ LET u == req[w].user
         row == add_points(req[w].up, req[w].amount)
     IN /\ points' = [points EXCEPT ![u] = row]
        /\ ledger' = [ledger EXCEPT ![u] =
              @ \o << Txn(req[w].amount, "earned", row.balance, 0),
                      Txn(req[w].amount, "earned", row.balance, req[w].oid) >>]
        /\ req' = [req EXCEPT ![w].pc = "done", ![w].up = row, ![w].result = "paid"]
  /\ payments' = IF req[w].op = "verify_payment"
                 THEN [payments EXCEPT ![req[w].ref].status = "success"]
                 ELSE payments
  /\ UNCHANGED << redemptions, userRewards, orders, promoVars, paystack,
                  dbShared, dbReserved >>
  /\ UNCHANGED cardVars
  /\ UNCHANGED orderNumbers

\* the writes of an award that are stored before an error: each statement
\* is its own transaction
AwardPrefix(w, written) ==
  LET u == req[w].user
      row == add_points(req[w].up, req[w].amount)
  IN /\ points' = IF written >= 1 THEN [points EXCEPT ![u] = row] ELSE points
     /\ ledger' = IF written >= 2
                  THEN [ledger EXCEPT ![u] =
                          Append(@, Txn(req[w].amount, "earned", row.balance, 0))]
                  ELSE ledger

\* mutation: award_points_for_order without its try/except: the error
\* reaches the handler's except clause, which answers 500
AwardFail_propagates(w, written) ==
  /\ req[w].pc \in {"award_read", "award_write"}
  /\ written > 0 => (req[w].pc = "award_write" /\ CanCommit(w))
  /\ written = 1 => req[w].up.total_earned + req[w].amount <= MaxEarned
  /\ AwardPrefix(w, written)
  /\ req' = [req EXCEPT ![w].pc = "done", ![w].amount = 0, ![w].result = "error"]
  /\ UNCHANGED << redemptions, userRewards, shopVars, dbShared, dbReserved >>
  /\ UNCHANGED cardVars
  /\ UNCHANGED orderNumbers

\* an exception anywhere in award_points_for_order is caught there ("Log
\* error but don't fail the order") and 0 is returned; the handler goes on
AwardFail(w, written) ==
  /\ req[w].pc \in {"award_read", "award_write"}
  /\ written > 0 => (req[w].pc = "award_write" /\ CanCommit(w))
  /\ written = 1 => req[w].up.total_earned + req[w].amount <= MaxEarned
  /\ AwardPrefix(w, written)
  /\ req' = [req EXCEPT ![w].pc = "done", ![w].amount = 0, ![w].result = "paid"]
  /\ payments' = IF req[w].op = "verify_payment"
                 THEN [payments EXCEPT ![req[w].ref].status = "success"]
                 ELSE payments
  /\ UNCHANGED << redemptions, userRewards, orders, promoVars, paystack,
                  dbShared, dbReserved >>
  /\ UNCHANGED cardVars
  /\ UNCHANGED orderNumbers

(***************************************************************************)
(* scan_loyalty_card(qr_code, visit_amount) behind QRScanAPIView.post      *)
(***************************************************************************)
ClockStep == 15

\* time passes
Tick ==
  /\ now < MaxClock
  /\ now' = now + ClockStep
  /\ UNCHANGED << loyaltyVars, shopVars, cards, req, dbShared, dbReserved >>
  /\ UNCHANGED orderNumbers

\* more than the life of a redeemed reward passes
LongWait ==
  /\ now <= MaxClock
  /\ now' = now + REWARD_VALID_MINUTES + ClockStep
  /\ UNCHANGED << loyaltyVars, shopVars, cards, req, dbShared, dbReserved >>
  /\ UNCHANGED orderNumbers

\* "Check if card was recently scanned (prevent abuse)"
ScannedRecently(card) ==
  card.last_scan # Never /\ now - card.last_scan < MIN_SCAN_INTERVAL_MINUTES

\* LoyaltyCard.objects.get(qr_code=qr_code, is_active=True) and the check
ScanCheck(w, u, visit_amount) ==
  /\ Free(w)
  /\ cards[u].is_active
  /\ Len(ledger[u]) + 2 <= MaxLedger
  /\ req' = [req EXCEPT ![w] =
       IF ScannedRecently(cards[u])
       THEN [Idle EXCEPT !.pc = "done", !.op = "scan", !.user = u, !.result = "cooldown"]
       ELSE [Idle EXCEPT !.pc = "scan_award", !.op = "scan", !.user = u,
                         !.amount = visit_amount]]
  /\ UNCHANGED << loyaltyVars, shopVars, cardVars, dbShared, dbReserved >>
  /\ UNCHANGED orderNumbers

\* award_points_for_physical_visit: get_or_create of the points row and the
\* points computation; VisitWrite follows
ScanAward(w) ==
  /\ req[w].pc = "scan_award"
  /\ points[req[w].user] = NoRow => CanCommit(w)
  /\ LET u == req[w].user
         row == IF points[u] = NoRow
                THEN [balance |-> 0, total_earned |-> 0, total_spent |-> 0]
                ELSE points[u]
         amount_points == IF req[w].amount # 0 THEN req[w].amount * POINTS_PER_DOLLAR ELSE 0
     IN /\ points' = [points EXCEPT ![u] = row]
        /\ req' = [req EXCEPT ![w].pc = "visit_write",
                              ![w].amount = PHYSICAL_VISIT_POINTS + amount_points,
                              ![w].up = row]
  /\ UNCHANGED << ledger, redemptions, userRewards, shopVars, cardVars, dbShared, dbReserved >>
  /\ UNCHANGED orderNumbers

\* loyalty_card.scan_card()
ScanMark(w) ==
  /\ req[w].pc = "scan_mark"
  /\ CanCommit(w)
  /\ cards' = [cards EXCEPT ![req[w].user].last_scan = now]
  /\ req' = [req EXCEPT ![w].pc = "done", ![w].result = "scanned"]
  /\ UNCHANGED << loyaltyVars, shopVars, now, dbShared, dbReserved >>
  /\ UNCHANGED orderNumbers

NextLoyalty ==
  \/ \E w \in Workers, u \in Users, v \in VisitAmounts : VisitRead(w, u, v)
  \/ \E w \in Workers : VisitWrite(w)
  \/ \E w \in Workers, u \in Users, rid \in RewardIds : RedeemValidate(w, u, rid)
  \/ \E w \in Workers : RedeemRead(w)
  \/ \E w \in Workers : RedeemWrite(w)
  \/ \E w \in Workers : RedeemCommit(w)
  \/ \E w \in Workers : RedeemAbort(w)

SpecLoyalty == Init /\ [][NextLoyalty]_vars

(***************************************************************************)
(* Ordering, one request at a time: a user earns points, redeems rewards,  *)
(* creates orders and has promo codes and rewards applied to them.         *)
(***************************************************************************)
NextOrder ==
  \/ \E u \in Users, visit_amount \in VisitAmounts : VisitRead(1, u, visit_amount)
  \/ VisitWrite(1)
  \/ \E u \in Users, rid \in RewardIds : RedeemValidate(1, u, rid)
  \/ RedeemRead(1)
  \/ RedeemWrite(1)
  \/ RedeemCommit(1)
  \/ \E data \in OrderInputs :
       Len(orders) < MaxPricedOrders /\ OrderCreate(1, data, MaxPricedOrders)
  \/ OrderUseReward(1)
  \/ \E failing \in SUBSET (1..2) : OrderCreateItems(1, failing)
  \/ \E u \in Users, pid \in PromoIds, oid \in 1..MaxPricedOrders, order_amount \in PromoOrderAmounts :
       ApplyPromoToOrder(1, u, pid, oid, order_amount)
  \/ \E urid \in 1..MaxUserRewards, oid \in 1..MaxPricedOrders : ApplyRewardToOrder(1, urid, oid)

SpecOrder == Init /\ [][NextOrder]_vars

(***************************************************************************)
(* Paying: orders are created at their catalog prices, a payment is        *)
(* initialized, the customer is charged by the gateway, and the result     *)
(* comes back through the verify endpoint, the callback and the webhook.   *)
(***************************************************************************)
PayInputs ==
  { OrderInput(u, [delivery_type |-> "pickup", has_address |-> FALSE], cart, 0,
               ItemsSubtotal(cart), Quantize2(VatOf(ItemsSubtotal(cart))), 0, 0,
               ItemsSubtotal(cart) + Quantize2(VatOf(ItemsSubtotal(cart)))) :
      u \in Users \cup {0}, cart \in Carts }
  \cup
  { OrderInput(u, [delivery_type |-> "pickup", has_address |-> FALSE], cart, 0,
               ItemsSubtotal(cart), Quantize2(VatOf(ItemsSubtotal(cart))), ClientFee, 0,
               ItemsSubtotal(cart) + Quantize2(VatOf(ItemsSubtotal(cart))) + ClientFee) :
      u \in Users, cart \in Carts }

NextPay ==
  \/ \E data \in PayInputs : OrderCreate(1, data, MaxPricedOrders)
  \/ OrderUseReward(1)
  \/ OrderCreateItems(1, {})
  \/ \E u \in Users \cup {0}, oid \in 1..MaxPricedOrders, gateway_ok \in BOOLEAN :
       InitializePayment(1, u, oid, gateway_ok)
  \/ \E ref \in 1..MaxPayments, outcome \in {"success", "failed"} : GatewayCharge(ref, outcome)
  \/ \E ref \in 1..MaxPayments, gateway_ok \in BOOLEAN : VerifyPayment(1, ref, gateway_ok)
  \/ \E ref \in 1..MaxPayments, gateway_ok \in BOOLEAN : PaymentCallback(1, ref, gateway_ok)
  \/ \E ref \in 1..MaxPayments : PaystackWebhook(1, ref)
  \/ \E is_birthday \in BOOLEAN : AwardRead(1, is_birthday)
  \/ AwardWrite(1)
  \/ \E written \in 0..2 : AwardFail(1, written)

SpecPay == Init /\ [][NextPay]_vars

(***************************************************************************)
(* Payment with the order service's process_order_payment as well.         *)
(***************************************************************************)
PaymentMethods == {"cash", "online", "transfer"}

NextGateway ==
  \/ \E data \in PayInputs : OrderCreate(1, data, MaxPricedOrders)
  \/ OrderUseReward(1)
  \/ OrderCreateItems(1, {})
  \/ \E u \in Users \cup {0}, oid \in 1..MaxPricedOrders, gateway_ok \in BOOLEAN :
       InitializePayment(1, u, oid, gateway_ok)
  \/ \E oid \in 1..MaxPricedOrders, payment_method \in PaymentMethods, gateway_ok \in BOOLEAN :
       ProcessOrderPayment(1, oid, payment_method, gateway_ok)
  \/ \E ref \in 1..MaxPayments, outcome \in {"success", "failed"} : GatewayCharge(ref, outcome)
  \/ \E ref \in 1..MaxPayments, gateway_ok \in BOOLEAN : VerifyPayment(1, ref, gateway_ok)
  \/ \E ref \in 1..MaxPayments, gateway_ok \in BOOLEAN : PaymentCallback(1, ref, gateway_ok)
  \/ \E is_birthday \in BOOLEAN : AwardRead(1, is_birthday)
  \/ AwardWrite(1)
  \/ AwardFail(1, 0)

SpecGateway == Init /\ [][NextGateway]_vars

(***************************************************************************)
(* The status of an order: creation, a payment that is verified before the *)
(* customer has paid, cancellation by the customer, updates by the staff.  *)
(***************************************************************************)
StatusInputs == { data \in PayInputs : data.user # 0 /\ Len(data.items) = 1 }

StatusRequests == STATUS_CHOICES \cup {"archived"}

NextStatus ==
  \/ \E data \in StatusInputs : OrderCreate(1, data, MaxPricedOrders)
  \/ OrderUseReward(1)
  \/ OrderCreateItems(1, {})
  \/ \E u \in Users, oid \in 1..MaxPricedOrders : InitializePayment(1, u, oid, TRUE)
  \/ \E ref \in 1..MaxPayments : VerifyPayment(1, ref, TRUE)
  \/ \E w \in Workers, u \in Users, oid \in 1..MaxPricedOrders : CancelRead(w, u, oid)
  \/ \E w \in Workers : CancelWrite(w)
  \/ \E w \in Workers, is_staff \in BOOLEAN, oid \in 1..MaxPricedOrders,
        status \in StatusRequests : UpdateOrderStatus(w, is_staff, oid, status)

SpecStatus == Init /\ [][NextStatus]_vars

(***************************************************************************)
(* Order numbers (orders/models.py).  An order number is "ORD-" followed   *)
(* by decimal digits; the model keeps the digits as a sequence.            *)
(***************************************************************************)
RECURSIVE Digits(_)
Digits(n) == IF n < 10 THEN << n >> ELSE Append(Digits(n \div 10), n % 10)

\* f"ORD-{new_num:03d}": at least three digits, zero-padded
format_order_number(new_num) ==
  LET d == Digits(new_num)
  IN IF Len(d) >= 3 THEN d
     ELSE [i \in 1..3 |-> IF i <= 3 - Len(d) THEN 0 ELSE d[i - (3 - Len(d))]]

\* int(order_number.split('-')[1])
RECURSIVE IntOfDigits(_)
IntOfDigits(d) ==
  IF d = << >> THEN 0
  ELSE 10 * IntOfDigits(SubSeq(d, 1, Len(d) - 1)) + d[Len(d)]

\* a < b in the order of the CharField column: character by character, a
\* proper prefix first
RECURSIVE StringLess(_, _)
StringLess(a, b) ==
  IF b = << >> THEN FALSE
  ELSE IF a = << >> THEN TRUE
  ELSE IF a[1] # b[1] THEN a[1] < b[1]
  ELSE StringLess(Tail(a), Tail(b))

\* Order.objects.order_by('-order_number').first() over the rows first..last
RECURSIVE LastOrderNumber(_, _, _)
LastOrderNumber(numbers, first, last) ==
  IF first = last THEN numbers[first]
  ELSE LET middle == (first + last) \div 2
           low == LastOrderNumber(numbers, first, middle)
           high == LastOrderNumber(numbers, middle + 1, last)
       IN IF StringLess(low, high) THEN high ELSE low

generate_order_number(numbers) ==
  IF numbers = << >> THEN format_order_number(1)
  ELSE format_order_number(IntOfDigits(LastOrderNumber(numbers, 1, Len(numbers))) + 1)

\* the numbers of the orders stored so far, when count orders were created
\* one after the other
NumbersOf(count) == [i \in 1..count |-> format_order_number(i)]

\* how many orders exist when the requests start
StartCounts == {0, 8, 98, 998}

Started ==
  CHOOSE k \in StartCounts :
    /\ k <= Len(orderNumbers)
    /\ \A other \in StartCounts : other <= Len(orderNumbers) => other <= k

\* Order(...) is instantiated: the default of order_number is evaluated
OrderNumberDefault(w) ==
  /\ Free(w)
  /\ Len(orderNumbers) < Started + MaxNewOrders
  /\ req' = [req EXCEPT ![w] =
        [Idle EXCEPT !.pc = "order_insert", !.op = "create_order",
                     !.order_number = generate_order_number(orderNumbers)]]
  /\ UNCHANGED << loyaltyVars, shopVars, cardVars, orderNumbers, dbShared, dbReserved >>

\* the INSERT of the order; order_number is unique=True (IntegrityError)
OrderInsert(w) ==
  /\ req[w].pc = "order_insert"
  /\ CanCommit(w)
  /\ IF \E i \in DOMAIN orderNumbers : orderNumbers[i] = req[w].order_number
     THEN /\ UNCHANGED orderNumbers
          /\ req' = [req EXCEPT ![w].pc = "done", ![w].result = "error"]
     ELSE /\ orderNumbers' = Append(orderNumbers, req[w].order_number)
          /\ req' = [req EXCEPT ![w].pc = "done", ![w].result = "created"]
  /\ UNCHANGED << loyaltyVars, shopVars, cardVars, dbShared, dbReserved >>

InitNumbers ==
  /\ points = [u \in Users |-> NoRow]
  /\ ledger = [u \in Users |-> << >>]
  /\ redemptions = [r \in RewardKinds |-> 0]
  /\ userRewards = << >>
  /\ orders = << >>
  /\ promoUsages = << >>
  /\ promoCodes = [pid \in PromoIds |-> 0]
  /\ \E count \in StartCounts : orderNumbers = NumbersOf(count)
  /\ payments = << >>
  /\ paystack = << >>
  /\ cards = [u \in Users |-> [user |-> u, is_active |-> TRUE, last_scan |-> Never]]
  /\ now = 0
  /\ req = [w \in Workers |-> Idle]
  /\ dbShared = {}
  /\ dbReserved = 0

NextNumbers ==
  \/ \E w \in Workers : OrderNumberDefault(w)
  \/ \E w \in Workers : OrderInsert(w)

SpecNumbers == InitNumbers /\ [][NextNumbers]_vars

(***************************************************************************)
(* A customer with several orders: each is created, paid at the gateway    *)
(* and verified, and the points of each are awarded.                       *)
(***************************************************************************)
NextBonus ==
  \/ \E data \in StatusInputs : OrderCreate(1, data, MaxOrders)
  \/ OrderUseReward(1)
  \/ OrderCreateItems(1, {})
  \/ \E u \in Users, oid \in 1..MaxOrders : InitializePayment(1, u, oid, TRUE)
  \/ \E ref \in 1..MaxPayments : GatewayCharge(ref, "success")
  \/ \E ref \in 1..MaxPayments : VerifyPayment(1, ref, TRUE)
  \/ \E is_birthday \in BOOLEAN : AwardRead(1, is_birthday)
  \/ AwardWrite(1)

SpecBonus == Init /\ [][NextBonus]_vars

(***************************************************************************)
(* Earning by visits, redeeming rewards and spending arbitrary amounts.    *)
(***************************************************************************)
NextSpend ==
  \/ \E u \in Users : VisitRead(1, u, 0)
  \/ VisitWrite(1)
  \/ \E u \in Users, rid \in RewardKinds : RedeemValidate(1, u, rid)
  \/ RedeemRead(1)
  \/ RedeemWrite(1)
  \/ RedeemCommit(1)
  \/ \E u \in Users, amount \in SpendAmounts : SpendPoints(1, u, amount)

SpecSpend == Init /\ [][NextSpend]_vars

(***************************************************************************)
(* Promo codes applied to existing orders by concurrent requests.          *)
(***************************************************************************)
NextPromo ==
  \/ \E data \in StatusInputs : OrderCreate(1, data, MaxOrders)
  \/ OrderUseReward(1)
  \/ OrderCreateItems(1, {})
  \/ \E w \in Workers, u \in Users, pid \in PromoIds, oid \in 1..MaxOrders,
        order_amount \in PromoOrderAmounts : PromoValidate(w, u, pid, oid, order_amount)
  \/ \E w \in Workers : PromoOrderSave(w)
  \/ \E w \in Workers : PromoCodeSave(w)
  \/ \E w \in Workers : PromoUsageInsert(w)

SpecPromo == Init /\ [][NextPromo]_vars

(***************************************************************************)
(* Using a UserReward: a user earns points and redeems rewards, and then   *)
(* concurrent requests name one UserReward in an order or in use-reward.   *)
(***************************************************************************)
RewardInputs ==
  UNION { { OrderInput(1, [delivery_type |-> "delivery", has_address |-> TRUE], cart,
                       1, s, Quantize2(VatOf(s)), ClientFee, dd,
                       s + Quantize2(VatOf(s)) + ClientFee - dd) :
              dd \in { Quantize2(PercentOf(s, 10)), ClientFee } } :
          cart \in Carts, s \in { ItemsSubtotal(c) : c \in Carts } }

NextReward ==
  \/ \E u \in Users : VisitRead(1, u, 0)
  \/ VisitWrite(1)
  \/ \E u \in Users, rid \in RewardIds : RedeemValidate(1, u, rid)
  \/ RedeemRead(1)
  \/ RedeemWrite(1)
  \/ RedeemCommit(1)
  \/ \E w \in Workers, data \in RewardInputs : OrderCreate(w, data, MaxOrders)
  \/ \E w \in Workers : OrderUseReward(w)
  \/ \E w \in Workers : OrderCreateItems(w, {})
  \/ \E w \in Workers, u \in Users, urid \in 1..MaxUserRewards : UseRewardRead(w, u, urid)
  \/ \E w \in Workers : UseRewardWrite(w)

SpecReward == Init /\ [][NextReward]_vars

(***************************************************************************)
(* Previewing a cart: a user earns points and redeems rewards, and carts   *)
(* are priced with and without a UserReward.                               *)
(***************************************************************************)
PreviewCarts == Carts \cup { << [menu_item |-> 2, quantity |-> 1] >> }

NextPreview ==
  \/ \E u \in Users : VisitRead(1, u, 0)
  \/ VisitWrite(1)
  \/ \E u \in Users, rid \in RewardKinds : RedeemValidate(1, u, rid)
  \/ RedeemRead(1)
  \/ RedeemWrite(1)
  \/ RedeemCommit(1)
  \/ \E u \in Users \cup {0}, cart_items \in PreviewCarts, delivery_fee \in ClientFees,
        reward_id \in 0..MaxUserRewards :
       CartPreview(1, u, cart_items, delivery_fee, reward_id)

SpecPreview == Init /\ [][NextPreview]_vars

(***************************************************************************)
(* Order creation for carts below and above the minimum order amount.      *)
(***************************************************************************)
SmallCartInputs ==
  UNION { Proposals(u, d, cart, 0, 0, 0) :
            u \in Users, d \in Deliveries, cart \in PreviewCarts }

NextSmallCart ==
  \/ \E data \in SmallCartInputs : OrderCreate(1, data, MaxPricedOrders)
  \/ OrderUseReward(1)
  \/ \E failing \in SUBSET (1..2) : OrderCreateItems(1, failing)

SpecSmallCart == Init /\ [][NextSmallCart]_vars

(***************************************************************************)
(* Loyalty cards: creation, LoyaltyCard methods, the post_save receiver    *)
(* and the admin actions.  Each operation is one request of the admin site *)
(* or of get_loyalty_card.                                                 *)
(***************************************************************************)
\* loyalty_card_post_save(instance, created): the row after the receiver
loyalty_card_post_save(card, created) ==
  IF created
  THEN IF card.user # 0 THEN [card EXCEPT !.is_active = TRUE] ELSE card
  ELSE IF card.user # 0 /\ ~card.is_active THEN [card EXCEPT !.is_active = TRUE]
  ELSE IF card.user = 0 /\ card.is_active THEN [card EXCEPT !.is_active = FALSE]
  ELSE card

\* user is a OneToOneField: a user has at most one card
HasCard(u) == \E c \in DOMAIN cards : cards[c].user = u

CardDone(w, op, c, result) ==
  req' = [req EXCEPT ![w] = [Idle EXCEPT !.pc = "done", !.op = op, !.oid = c,
                                         !.result = result]]

\* LoyaltyCard.objects.create / get_or_create / the admin add form:
\* is_active is what the caller gives, True by default
CardCreate(w, u, is_active) ==
  /\ Free(w)
  /\ Len(cards) < MaxCards
  /\ u # 0 => ~HasCard(u)
  /\ cards' = Append(cards, loyalty_card_post_save(
                  [user |-> u, is_active |-> is_active, last_scan |-> Never], TRUE))
  /\ CardDone(w, "card_create", Len(cards) + 1, "created")
  /\ UNCHANGED << loyaltyVars, shopVars, now, dbShared, dbReserved >>
  /\ UNCHANGED orderNumbers

\* LoyaltyCard.link_to_user(user)
CardLink(w, c, u) ==
  /\ Free(w)
  /\ c \in DOMAIN cards
  /\ \A d \in DOMAIN cards : cards[d].user = u => d = c
  /\ cards' = [cards EXCEPT ![c] =
       loyalty_card_post_save([@ EXCEPT !.user = u, !.is_active = TRUE], FALSE)]
  /\ CardDone(w, "link_to_user", c, "linked")
  /\ UNCHANGED << loyaltyVars, shopVars, now, dbShared, dbReserved >>
  /\ UNCHANGED orderNumbers

\* LoyaltyCard.unlink_user(), also the admin action unlink_users per card
CardUnlink(w, c) ==
  /\ Free(w)
  /\ c \in DOMAIN cards
  /\ cards' = [cards EXCEPT ![c] =
       loyalty_card_post_save([@ EXCEPT !.user = 0, !.is_active = FALSE], FALSE)]
  /\ CardDone(w, "unlink_user", c, "unlinked")
  /\ UNCHANGED << loyaltyVars, shopVars, now, dbShared, dbReserved >>
  /\ UNCHANGED orderNumbers

\* LoyaltyCard.activate_card(), also the admin action activate_cards per card
CardActivate(w, c) ==
  /\ Free(w)
  /\ c \in DOMAIN cards
  /\ IF cards[c].user # 0
     THEN /\ cards' = [cards EXCEPT ![c] =
                loyalty_card_post_save([@ EXCEPT !.is_active = TRUE], FALSE)]
          /\ CardDone(w, "activate_card", c, "activated")
     ELSE /\ cards' = cards
          /\ CardDone(w, "activate_card", c, "refused")
  /\ UNCHANGED << loyaltyVars, shopVars, now, dbShared, dbReserved >>
  /\ UNCHANGED orderNumbers

\* LoyaltyCard.deactivate_card(): save() runs the receiver
CardDeactivate(w, c) ==
  /\ Free(w)
  /\ c \in DOMAIN cards
  /\ cards' = [cards EXCEPT ![c] =
       loyalty_card_post_save([@ EXCEPT !.is_active = FALSE], FALSE)]
  /\ CardDone(w, "deactivate_card", c, "deactivated")
  /\ UNCHANGED << loyaltyVars, shopVars, now, dbShared, dbReserved >>
  /\ UNCHANGED orderNumbers

\* LoyaltyCardAdmin.deactivate_cards: queryset.update(is_active=False) sends
\* no post_save
AdminDeactivateCards(w, selected) ==
  /\ Free(w)
  /\ selected # {}
  /\ selected \subseteq DOMAIN cards
  /\ cards' = [c \in DOMAIN cards |->
                 IF c \in selected THEN [cards[c] EXCEPT !.is_active = FALSE]
                 ELSE cards[c]]
  /\ CardDone(w, "deactivate_cards", 0, "deactivated")
  /\ UNCHANGED << loyaltyVars, shopVars, now, dbShared, dbReserved >>
  /\ UNCHANGED orderNumbers

(***************************************************************************)
(* Scanning: loyalty cards are scanned by concurrent requests while time   *)
(* passes.                                                                 *)
(***************************************************************************)
NextScan ==
  \/ Tick
  \/ \E w \in Workers, u \in Users : ScanCheck(w, u, 0)
  \/ \E w \in Workers : ScanAward(w)
  \/ \E w \in Workers : VisitWrite(w)
  \/ \E w \in Workers : ScanMark(w)

SpecScan == Init /\ [][NextScan]_vars

(***************************************************************************)
(* The life of a redeemed reward: redemption, use, lazy expiry and sweep.  *)
(***************************************************************************)
NextExpiry ==
  \/ \E u \in Users : VisitRead(1, u, 0)
  \/ VisitWrite(1)
  \/ \E u \in Users, rid \in RewardIds : RedeemValidate(1, u, rid)
  \/ RedeemRead(1)
  \/ RedeemWrite(1)
  \/ RedeemCommit(1)
  \/ LongWait
  \/ \E w \in Workers, u \in Users, urid \in 1..MaxUserRewards : UseRewardRead(w, u, urid)
  \/ \E w \in Workers : UseRewardWrite(w)
  \/ \E w \in Workers, u \in Users : ExpiryCheckRead(w, u)
  \/ \E w \in Workers : ExpireSweepRead(w)
  \/ \E w \in Workers : ExpireSave(w)

SpecExpiry == Init /\ [][NextExpiry]_vars

(***************************************************************************)
(* Card management, starting with no card in the table.                    *)
(***************************************************************************)
InitCards ==
  /\ points = [u \in Users |-> NoRow]
  /\ ledger = [u \in Users |-> << >>]
  /\ redemptions = [r \in RewardKinds |-> 0]
  /\ userRewards = << >>
  /\ orders = << >>
  /\ promoUsages = << >>
  /\ promoCodes = [pid \in PromoIds |-> 0]
  /\ orderNumbers = << >>
  /\ payments = << >>
  /\ paystack = << >>
  /\ cards = << >>
  /\ now = 0
  /\ req = [w \in Workers |-> Idle]
  /\ dbShared = {}
  /\ dbReserved = 0

NextCards ==
  \/ \E w \in Workers, u \in Users \cup {0}, is_active \in BOOLEAN : CardCreate(w, u, is_active)
  \/ \E w \in Workers, c \in 1..MaxCards, u \in Users : CardLink(w, c, u)
  \/ \E w \in Workers, c \in 1..MaxCards : CardUnlink(w, c)
  \/ \E w \in Workers, c \in 1..MaxCards : CardActivate(w, c)
  \/ \E w \in Workers, c \in 1..MaxCards : CardDeactivate(w, c)
  \/ \E w \in Workers, selected \in SUBSET (1..MaxCards) : AdminDeactivateCards(w, selected)

SpecCards == InitCards /\ [][NextCards]_vars

(***************************************************************************)
(* Claims                                                                  *)
(***************************************************************************)

\* C1: after every earn and spend, each user's points row satisfies
\* balance = total_earned - total_spent and balance >= 0.
C1_BalanceInvariant ==
  \A u \in Users :
    points[u] # NoRow =>
      /\ points[u].balance = points[u].total_earned - points[u].total_spent
      /\ points[u].balance >= 0

\* a user has both earned and spent points
C1_Witness ==
  \E u \in Users :
    /\ points[u] # NoRow
    /\ points[u].total_earned > 0
    /\ points[u].total_spent > 0
    /\ \E i \in DOMAIN ledger[u] : ledger[u][i].transaction_type = "spent"

LastUserReward(s) == s[Len(s)]

\* C5: spends on one balance are serialized: every redemption that commits
\* lowers the stored balance of its user by exactly the points it spent and
\* leaves it non-negative, so of two concurrent redemptions whose amounts
\* together exceed the balance at most one commits.
C5_SpendsSerialized ==
  [][Len(userRewards') = Len(userRewards) + 1 =>
       LET ur == LastUserReward(userRewards')
       IN /\ points'[ur.user].balance = points[ur.user].balance - ur.points_spent
          /\ points'[ur.user].balance >= 0]_vars

\* two redemptions of one user were in flight together, each affordable alone
\* but not both; one was committed and the other one failed
C5_Witness ==
  \E w1, w2 \in Workers :
    /\ w1 # w2
    /\ req[w1].op = "redeem" /\ req[w2].op = "redeem"
    /\ req[w1].user = req[w2].user
    /\ req[w1].result = "redeemed"
    /\ req[w2].result = "failed"
    /\ RewardCatalog[req[w2].rid].points_required <= req[w2].up.balance
    /\ req[w2].up.balance = req[w1].up.balance + RewardCatalog[req[w1].rid].points_required
    /\ RewardCatalog[req[w1].rid].points_required
         + RewardCatalog[req[w2].rid].points_required > req[w2].up.balance

\* C6: the redemption cap holds: a reward with max_redemptions > 0 is never
\* redeemed more often than max_redemptions.
C6_CapRespected ==
  \A rid \in RewardIds :
    RewardCatalog[rid].max_redemptions > 0 =>
      redemptions[rid] <= RewardCatalog[rid].max_redemptions

\* the value of a ledger entry for the balance: a 'spent' entry stores its
\* amount positive
LedgerDelta(entry) ==
  IF entry.transaction_type = "spent" THEN -entry.amount ELSE entry.amount

RECURSIVE LedgerReplay(_)
LedgerReplay(entries) ==
  IF entries = << >> THEN 0 ELSE LedgerDelta(Head(entries)) + LedgerReplay(Tail(entries))

\* C2: balance and ledger move together: each earn or spend appends exactly
\* one ledger entry, so that in every reachable state replaying a user's
\* ledger entries in creation order reproduces the user's current balance.
C2_LedgerReplaysBalance ==
  \A u \in Users :
    LedgerReplay(ledger[u]) = (IF points[u] = NoRow THEN 0 ELSE points[u].balance)

\* C3: confirming one successful gateway reference any number of times,
\* through the verify endpoint, the callback and the webhook, credits the
\* order's points to its user exactly once and leaves the order paid.
C3_CreditedOnce ==
  \A ref \in DOMAIN payments :
    LET oid == payments[ref].order
        u == orders[oid].user
    IN (/\ u # 0
        /\ paystack[ref] = "success"
        /\ \A other \in DOMAIN payments : payments[other].order = oid => other = ref)
         => Cardinality({ i \in DOMAIN ledger[u] : ledger[u][i].order = oid }) <= 1

\* C4: over any interleaving of use-reward requests and order creations
\* naming one UserReward, at most one persisted order carries the discount
\* of that UserReward.
C4_RewardUsedOnce ==
  \A urid \in DOMAIN userRewards :
    Cardinality({ oid \in DOMAIN orders :
                    orders[oid].reward_id = urid /\ orders[oid].discount_amount > 0 }) <= 1

\* C7: order creation is all-or-nothing: in every state another request
\* can observe, each persisted order has at least one OrderItem.
C7_OrderHasItems ==
  \A oid \in DOMAIN orders : orders[oid].items # << >>

\* the additive identity of the five money fields, within 0.01
AdditiveIdentity(subtotal, tax_amount, delivery_fee, discount_amount, total_amount) ==
  Abs(subtotal + tax_amount + delivery_fee - discount_amount - total_amount) <= TOLERANCE

\* C8: every persisted order satisfies subtotal + tax_amount + delivery_fee
\* - discount_amount = total_amount within 0.01, after any sequence of
\* create_order, apply-promo-to-order and apply-reward-to-order.
C8_AdditiveIdentity ==
  \A oid \in DOMAIN orders :
    AdditiveIdentity(orders[oid].subtotal, orders[oid].tax_amount, orders[oid].delivery_fee,
                     orders[oid].discount_amount, orders[oid].total_amount)

\* the soundness bounds on the five numbers a client submits
ClientSound(data) ==
  /\ AdditiveIdentity(data.subtotal, data.tax_amount, data.delivery_fee,
                      data.discount_amount, data.total_amount)
  /\ 0 < data.subtotal /\ data.subtotal <= MAX_SUBTOTAL
  /\ 0 <= data.tax_amount /\ 4 * data.tax_amount <= data.subtotal
  /\ 0 <= data.delivery_fee /\ data.delivery_fee <= MAX_DELIVERY_FEE
  /\ 0 <= data.discount_amount
  /\ data.discount_amount <= data.subtotal + data.tax_amount + data.delivery_fee
  /\ data.total_amount >= MINIMUM_ORDER_AMOUNT

\* a request that is complete apart from its numbers: a cart with a line,
\* an address for a delivery, no fee for a pickup, no UserReward named
PlainRequest(data) ==
  /\ data.items # << >>
  /\ data.delivery_type = "delivery" => data.has_address
  /\ data.delivery_type = "pickup" => data.delivery_fee = 0
  /\ data.reward_id = 0

\* the step in which create_order has handled the request `data` of worker w
CreateOrderStep(w) ==
  /\ Free(w)
  /\ req'[w] # req[w]
  /\ req'[w].op = "create_order"
  /\ req'[w].input # NoInput

\* C9: when the client's totals fail one of the soundness bounds, the order
\* is persisted with totals recomputed by the server from the catalog prices
\* of the cart and the tax rate, and the persisted fields satisfy the
\* additive identity.
C9_UnsoundIsRecomputed ==
  [][ \A w \in Workers :
        (CreateOrderStep(w) /\ PlainRequest(req'[w].input) /\ ~ClientSound(req'[w].input))
          => /\ Len(orders') = Len(orders) + 1
             /\ LET row == orders'[Len(orders')]
                IN /\ row.subtotal = ItemsSubtotal(req'[w].input.items)
                   /\ row.tax_amount = VatOf(row.subtotal)
                   /\ AdditiveIdentity(row.subtotal, row.tax_amount, row.delivery_fee,
                                       row.discount_amount, row.total_amount) ]_vars

\* C10: when the client's five numbers satisfy all soundness bounds, the
\* order is persisted with exactly those five values, a non-zero client-side
\* discount included.
C10_SoundIsVerbatim ==
  [][ \A w \in Workers :
        (CreateOrderStep(w) /\ PlainRequest(req'[w].input) /\ ClientSound(req'[w].input))
          => /\ Len(orders') = Len(orders) + 1
             /\ LET row == orders'[Len(orders')]
                    data == req'[w].input
                IN /\ row.subtotal = data.subtotal
                   /\ row.tax_amount = data.tax_amount
                   /\ row.delivery_fee = data.delivery_fee
                   /\ row.discount_amount = data.discount_amount
                   /\ row.total_amount = data.total_amount ]_vars

\* C11: when the cart preview finds subtotal + tax + delivery_fee - discount
\* below the minimum order amount, the returned total is the minimum order
\* amount and the returned discount_amount is such that subtotal + tax_amount
\* + delivery_fee - discount_amount = total within 0.01.  (Stated for carts
\* whose subtotal + tax + delivery_fee reaches the minimum, where a reduced
\* discount can land the total on it.)
C11_PreviewClampsDiscount ==
  \A w \in Workers :
    (req[w].op = "calculate_totals" /\ req[w].result = "previewed")
      => LET t == req[w].preview
             granted == IF req[w].input.reward_id = 0 THEN 0
                        ELSE cart_reward_discount(userRewards[req[w].input.reward_id],
                                                  t.subtotal, t.delivery_fee)
         IN (/\ t.subtotal + t.tax_amount + t.delivery_fee - granted < MINIMUM_ORDER_AMOUNT
             /\ t.subtotal + t.tax_amount + t.delivery_fee >= MINIMUM_ORDER_AMOUNT)
              => /\ t.total = MINIMUM_ORDER_AMOUNT
                 /\ AdditiveIdentity(t.subtotal, t.tax_amount, t.delivery_fee,
                                      t.discount_amount, t.total)

\* C12: every persisted order whose delivery type is pickup has delivery_fee
\* 0, and an order-creation request with delivery type pickup and a non-zero
\* delivery fee is rejected and persists nothing.
C12_PickupFeeZero ==
  /\ [](\A oid \in DOMAIN orders :
          orders[oid].delivery_type = "pickup" => orders[oid].delivery_fee = 0)
  /\ [][ \A w \in Workers :
           (/\ CreateOrderStep(w)
            /\ req'[w].input.delivery_type = "pickup"
            /\ req'[w].input.delivery_fee # 0)
             => (req'[w].result = "rejected" /\ orders' = orders) ]_vars

\* a pickup order is persisted with its items and a later pickup request
\* with a delivery fee has been rejected
C12_Witness ==
  /\ \E oid \in DOMAIN orders :
       /\ orders[oid].delivery_type = "pickup"
       /\ orders[oid].items # << >>
       /\ orders[oid].delivery_fee = 0
  /\ \E w \in Workers :
       /\ req[w].op = "create_order"
       /\ req[w].input.delivery_type = "pickup"
       /\ req[w].input.delivery_fee # 0
       /\ req[w].result = "rejected"

\* C13: of any two scans of one card less than the cooldown apart, whether
\* sequential or concurrent, at most one succeeds and awards points: by time
\* `now` a card has earned at most one visit award per started cooldown
\* interval.
C13_OneScanPerCooldown ==
  \A u \in Users :
    Cardinality({ i \in DOMAIN ledger[u] : ledger[u][i].transaction_type = "physical_visit" })
      <= 1 + now \div MIN_SCAN_INTERVAL_MINUTES

\* a request of the redeem operation that is at work in worker w
RedeemStep(w) == req[w].op = "redeem" /\ req[w].pc # "done" /\ req'[w] # req[w]

\* C14: reward redemption is all-or-nothing: the step that answers "redeemed"
\* lowers the balance by points_required, appends one spent ledger entry, one
\* active UserReward with points_spent = points_required and raises the
\* reward's current_redemptions by one; every other step of a redemption,
\* whether it goes on, is rejected or fails after the spend, leaves balance,
\* ledger, UserRewards and current_redemptions as they were.
C14_RedeemAllOrNothing ==
  [][\A w \in Workers :
       RedeemStep(w) =>
         LET u == req[w].user
             rid == req[w].rid
             cost == RewardCatalog[rid].points_required
         IN IF req'[w].result = "redeemed"
            THEN /\ points'[u].balance = points[u].balance - cost
                 /\ ledger'[u] = Append(ledger[u], Txn(cost, "spent", points'[u].balance, 0))
                 /\ userRewards' = Append(userRewards,
                       [user |-> u, reward |-> rid, points_spent |-> cost,
                        status |-> "active",
                        expires_at |-> now + REWARD_VALID_MINUTES, order |-> 0])
                 /\ redemptions' = [redemptions EXCEPT ![rid] = @ + 1]
            ELSE UNCHANGED loyaltyVars]_vars

\* C15: a UserReward leaves the active state at most once: a stored status of
\* used or expired is never changed again, also when an expiry sweep or a
\* lazy expiry check runs together with a use.
C15_OneTerminalTransition ==
  [][\A i \in DOMAIN userRewards :
       userRewards[i].status # "active" =>
         userRewards'[i].status = userRewards[i].status]_vars

\* C16: a request that uses or applies a UserReward whose status is not
\* active, or whose expires_at is already past while its status is still
\* active, is rejected and changes neither the UserReward nor any order.
C16_StaleRewardRejected ==
  [][\A w \in Workers :
       (/\ Free(w)
        /\ req'[w] # req[w]
        /\ req'[w].op \in {"use_reward", "apply_reward"}
        /\ \/ userRewards[req'[w].urid].status # "active"
           \/ is_expired(userRewards[req'[w].urid]))
       => /\ req'[w].pc = "done"
          /\ req'[w].result \notin {"used", "applied"}
          /\ userRewards' = userRewards
          /\ orders' = orders]_vars

\* the confirmation handlers
Confirmations == {"verify_payment", "payment_callback", "webhook"}

\* C17: an error raised while points are awarded does not undo or fail the
\* confirmation of a successfully verified payment: when the award of a
\* confirmation ends with an error (it returns 0), the order is stored with
\* payment_status paid and a payment_verified_at stamp and the request
\* reports success.
C17_AwardErrorSwallowed ==
  [][\A w \in Workers :
       (/\ req[w].op \in Confirmations
        /\ req[w].pc \in {"award_read", "award_write"}
        /\ req'[w].pc = "done"
        /\ req'[w].amount = 0)
       => /\ req'[w].result = "paid"
          /\ orders'[req[w].oid].payment_status = "paid"
          /\ orders'[req[w].oid].payment_verified_at # Never]_vars

\* a verification of a successful payment whose award failed before any
\* write: the order is paid and stamped, the payment is stored as success
\* and no points were credited for the order
C17_Witness ==
  \E w \in Workers :
    /\ req[w].op = "verify_payment" /\ req[w].pc = "done"
    /\ req[w].result = "paid" /\ req[w].amount = 0
    /\ req[w].user # 0
    /\ paystack[req[w].ref] = "success"
    /\ payments[req[w].ref].status = "success"
    /\ orders[req[w].oid].payment_status = "paid"
    /\ orders[req[w].oid].payment_verified_at = now
    /\ ledger[req[w].user] = << >>

\* a step of an operation whose call to the payment gateway fails
GatewayCallFails ==
  \E w \in Workers :
    \/ \E u \in Users \cup {0}, oid \in DOMAIN orders : InitializePayment(w, u, oid, FALSE)
    \/ \E oid \in DOMAIN orders : ProcessOrderPayment(w, oid, "online", FALSE)
    \/ \E ref \in DOMAIN payments : VerifyPayment(w, ref, FALSE)
    \/ \E ref \in DOMAIN payments : PaymentCallback(w, ref, FALSE)

\* a step of a verification that the gateway answers with a payment that did
\* not succeed
GatewayReportsFailure ==
  \E w \in Workers, ref \in DOMAIN payments :
    /\ paystack[ref] # "success"
    /\ VerifyPayment(w, ref, TRUE) \/ PaymentCallback(w, ref, TRUE)

\* C18: a failed or timed-out gateway call (initialize or verify) changes no
\* order and no points state, so payment_status stays as it was, and an order
\* becomes failed only in a step in which the gateway answers that the
\* payment did not succeed.
C18_GatewayErrorKeepsPending ==
  [][/\ GatewayCallFails => UNCHANGED << orders, points, ledger >>
     /\ \A oid \in DOMAIN orders :
          (orders[oid].payment_status # "failed" /\ orders'[oid].payment_status = "failed")
            => GatewayReportsFailure]_vars

\* the states in which an order cannot be cancelled
NotCancellable == {"delivered", "cancelled", "refunded"}

\* C19: cancel_order is rejected for an order that is delivered, cancelled or
\* refunded and then leaves every order as it is; a cancellation that
\* succeeds acts on an order whose stored status is none of the three, stores
\* status cancelled and leaves the stored payment_status as it is.
C19_CancelOnlyOpenOrders ==
  [][\A w \in Workers :
       /\ (/\ Free(w)
           /\ req'[w] # req[w]
           /\ req'[w].op = "cancel_order"
           /\ orders[req'[w].oid].status \in NotCancellable)
          => (req'[w].result \in {"rejected", "not_found"} /\ orders' = orders)
       /\ (req[w].pc = "cancel_write" /\ req'[w].result = "cancelled")
          => /\ orders[req[w].oid].status \notin NotCancellable
             /\ orders'[req[w].oid].status = "cancelled"
             /\ orders'[req[w].oid].payment_status = orders[req[w].oid].payment_status]_vars

\* the edges of the order lifecycle
LifecycleEdges ==
  { << "pending", "confirmed" >>, << "confirmed", "preparing" >>,
    << "preparing", "ready" >>, << "ready", "out_for_delivery" >>,
    << "out_for_delivery", "delivered" >>,
    << "pending", "cancelled" >>, << "confirmed", "cancelled" >>,
    << "delivered", "refunded" >>, << "cancelled", "refunded" >> }

\* C20: over any sequence of status updates and cancellations the stored
\* status of an order changes along the lifecycle edges only.
C20_StatusFollowsLifecycle ==
  [][\A oid \in DOMAIN orders :
       orders'[oid].status # orders[oid].status
         => << orders[oid].status, orders'[oid].status >> \in LifecycleEdges]_vars

\* C21: the stored payment_status of an order only moves from pending to paid
\* or from pending to failed; once paid it never becomes failed or pending
\* again, whatever payment initializations and verifications follow.
C21_PaymentStatusMonotone ==
  [][\A oid \in DOMAIN orders :
       orders'[oid].payment_status # orders[oid].payment_status
         => /\ orders[oid].payment_status = "pending"
            /\ orders'[oid].payment_status \in {"paid", "failed"}]_vars

\* C22: in every reachable state a loyalty card is active if and only if it
\* has a user assigned; a card created without a user is inactive.
C22_ActiveIffAssigned ==
  \A c \in DOMAIN cards : cards[c].is_active <=> cards[c].user # 0

\* what a reward of each type is said to contribute to discount_amount
StatedRewardAmount(reward, subtotal, delivery_fee) ==
  CASE reward.reward_type = "discount" ->
         IF reward.discount_percentage # 0
         THEN PercentOf(subtotal, reward.discount_percentage)
         ELSE reward.discount_amount
    [] reward.reward_type = "free_delivery" -> delivery_fee
    [] OTHER -> 0

\* the reward amount order creation computes for the cart of a preview
CreationRewardAmount(w) ==
  calculate_reward_discount([req[w].input EXCEPT !.subtotal = req[w].preview.subtotal])

\* a preview of request w that applied one of the user's own active rewards
PreviewedWithReward(w) ==
  /\ req[w].op = "calculate_totals" /\ req[w].result = "previewed"
  /\ req[w].user # 0
  /\ ActiveUserReward(req[w].input.reward_id, req[w].user)
  /\ ~is_expired(userRewards[req[w].input.reward_id])

\* C23: the amount a reward contributes to discount_amount depends only on
\* its type (percentage discount: subtotal x percentage / 100; fixed discount:
\* the fixed amount; free_delivery: the delivery fee; cashback and free_item:
\* 0), and order creation computes the same amount as the cart preview.
C23_RewardAmountByType ==
  \A w \in Workers :
    PreviewedWithReward(w) =>
      LET reward == RewardCatalog[userRewards[req[w].input.reward_id].reward]
          stated == StatedRewardAmount(reward, req[w].preview.subtotal,
                                       req[w].input.delivery_fee)
      IN /\ req[w].preview.discount_amount = stated
         /\ CreationRewardAmount(w) = Accepted(stated)

\* no apply_promo_to_order request is between its statements
NoPromoInFlight ==
  \A w \in Workers : req[w].pc \notin {"promo_order", "promo_count", "promo_insert"}

PromoUsageRows(pid) == { i \in DOMAIN promoUsages : promoUsages[i].promo_code = pid }

\* C24: for every promo code current_usage equals the number of its
\* PromoCodeUsage rows, and no two PromoCodeUsage rows have the same promo
\* code and order, also when applications of the code race.
C24_UsageCounted ==
  /\ \A i, j \in DOMAIN promoUsages :
       (promoUsages[i].promo_code = promoUsages[j].promo_code
          /\ promoUsages[i].order = promoUsages[j].order) => i = j
  /\ NoPromoInFlight =>
       \A pid \in PromoIds : promoCodes[pid] = Cardinality(PromoUsageRows(pid))

\* request w has just run spend_points(amount) for a user whose balance was
\* smaller than the amount
Overspend(w) ==
  /\ req'[w] # req[w]
  /\ req'[w].op = "spend"
  /\ points[req'[w].user].balance < req'[w].amount

\* C25: spending more than the balance fails with the insufficient-balance
\* error and has no effect: balance, total_earned and total_spent are
\* unchanged and no ledger entry is created.
C25_OverspendRefused ==
  [][\A w \in Workers :
       Overspend(w) => /\ req'[w].result = "insufficient"
                       /\ points' = points
                       /\ ledger' = ledger]_vars

\* a spend of more than a positive balance has been refused
C25_Witness ==
  \E w \in Workers :
    /\ req[w].op = "spend" /\ req[w].result = "insufficient"
    /\ points[req[w].user].balance > 0
    /\ points[req[w].user].balance < req[w].amount
    /\ Len(ledger[req[w].user]) > 0

\* request w has just computed the points of its order
AwardComputed(w) == req[w].pc = "award_read" /\ req'[w].pc = "award_write"

\* the amount computed by request w contains the first-order bonus
BonusIncluded(w) ==
  \E birthday_bonus \in {0, BIRTHDAY_BONUS_POINTS} :
    req'[w].amount = base_points(orders[req[w].oid].subtotal)
                       + FIRST_ORDER_BONUS_POINTS + birthday_bonus

\* no earlier order of the same user exists
FirstOrderEver(oid) ==
  \A other \in DOMAIN orders : orders[other].user = orders[oid].user => oid <= other

\* a ledger entry of user u refers to order oid
Credited(u, oid) == \E i \in DOMAIN ledger[u] : ledger[u][i].order = oid

\* a ledger entry of user u for an order contains the first-order bonus
BonusCredited(u) ==
  \E i \in DOMAIN ledger[u] :
    /\ ledger[u][i].order # 0
    /\ \E birthday_bonus \in {0, BIRTHDAY_BONUS_POINTS} :
         ledger[u][i].amount = base_points(orders[ledger[u][i].order].subtotal)
                                 + FIRST_ORDER_BONUS_POINTS + birthday_bonus

\* C26: when the payment of an order is confirmed, the first-order bonus is
\* part of the points earned if and only if the order is the user's first
\* order ever, however many orders the user has created by then; and a user
\* is credited the first-order bonus at most once.
C26_FirstOrderBonus ==
  [][\A w \in Workers :
       AwardComputed(w) =>
         /\ ~Credited(req[w].user, req[w].oid) =>
              (BonusIncluded(w) <=> FirstOrderEver(req[w].oid))
         /\ BonusIncluded(w) => ~BonusCredited(req[w].user)]_vars

\* request w has just been given an order number
NumberAssigned(w) == req[w].pc # "order_insert" /\ req'[w].pc = "order_insert"

\* C27: every created order receives an order number that differs from all
\* existing order numbers and whose numeric part is greater than that of every
\* order created before, also beyond ORD-999 and for concurrent creations;
\* the stored numbers are pairwise different and increase in creation order.
C27_OrderNumbersFresh ==
  [][/\ \A w \in Workers :
          NumberAssigned(w) =>
            \A i \in DOMAIN orderNumbers :
              /\ orderNumbers[i] # req'[w].order_number
              /\ IntOfDigits(orderNumbers[i]) < IntOfDigits(req'[w].order_number)
     /\ \A i \in DOMAIN orderNumbers' :
          i > 1 => IntOfDigits(orderNumbers'[i - 1]) < IntOfDigits(orderNumbers'[i])]_vars

\* request w has just stored a new order
OrderStored(w) ==
  /\ req'[w] # req[w]
  /\ req'[w].op = "create_order"
  /\ Len(orders') = Len(orders) + 1

\* C28: every order stored by create_order, with the client's totals or with
\* the recomputed ones (the minimum-order clamp included), has
\* 0 <= discount_amount <= subtotal + tax_amount + delivery_fee.
C28_DiscountWithinOrder ==
  [][\A w \in Workers :
       OrderStored(w) =>
         LET order == orders'[Len(orders')]
         IN /\ 0 <= order.discount_amount
            /\ order.discount_amount
                 <= order.subtotal + order.tax_amount + order.delivery_fee]_vars

\* create_order has finished order oid: its items are stored
OrderComplete(oid) ==
  \A w \in Workers :
    (req[w].op = "create_order" /\ req[w].oid = oid) => req[w].pc = "done"

\* C29: the stored subtotal of every order created by create_order equals
\* the sum of total_price over its OrderItems, each total_price being the
\* catalog price of the item times its quantity.
C29_SubtotalIsItemsSum ==
  \A oid \in DOMAIN orders :
    OrderComplete(oid) =>
      /\ \A i \in DOMAIN orders[oid].items :
           orders[oid].items[i].total_price
             = MenuPrice[orders[oid].items[i].menu_item] * orders[oid].items[i].quantity
      /\ orders[oid].subtotal = ItemsTotal(orders[oid].items)

\* the special_instructions text the accept path stores for a request
AcceptPathInstructions(data) ==
  IF data.delivery_type = "delivery" /\ data.has_address THEN "Delivery Address" ELSE ""

\* C30: when order creation falls back to the server's recomputation, only
\* the five money fields are replaced: the stored delivery_type is the one the
\* client submitted and the address / special-instructions text is the one
\* the accept path would store.
C30_FallbackKeepsOtherFields ==
  [][\A w \in Workers :
       (OrderStored(w) /\ req'[w].result = "recomputed") =>
         LET order == orders'[Len(orders')]
         IN /\ order.delivery_type = req'[w].input.delivery_type
            /\ order.special_instructions = AcceptPathInstructions(req'[w].input)]_vars

\* one redemption was committed and a later one of the same user, which could
\* afford its reward, failed after the spend and was rolled back
C14_Witness ==
  \E w \in Workers :
    /\ req[w].op = "redeem" /\ req[w].result = "rolled_back"
    /\ Len(userRewards) = 1
    /\ userRewards[1].user = req[w].user
    /\ points[req[w].user] = req[w].up
    /\ req[w].up.balance >= RewardCatalog[req[w].rid].points_required

TypeOK ==
  /\ \A u \in Users : points[u] = NoRow \/ RowValid(points[u])
  /\ dbReserved \in Workers \cup {0}
  /\ dbShared \subseteq Workers
  /\ now \in 0..(MaxClock + 2 * ClockStep + REWARD_VALID_MINUTES)
  /\ \A c \in DOMAIN cards : cards[c].last_scan \in {Never} \cup 0..now
  /\ \A c, d \in DOMAIN cards : (cards[c].user # 0 /\ cards[c].user = cards[d].user) => c = d
  /\ Len(orders) <= MaxOrders
  /\ Len(payments) = Len(paystack)
  /\ \A ref \in DOMAIN payments : payments[ref].order \in DOMAIN orders
  /\ Len(promoUsages) <= Len(orders) * Cardinality(PromoIds)

====
